---------------------------- MODULE Spec2Model ----------------------------
(***************************************************************************)
(* A model of reaper-rs: the build-time generator of the low-level        *)
(* function pointer table (low/build.rs), the table it generates (load,   *)
(* accessors), and the thread-scope typing of the medium-level handle     *)
(* (medium/src/reaper_functions.rs).                                       *)
(*                                                                         *)
(* The specifications of the module:                                   *)
(*   SpecGen    one run of the generator over a bindings.rs syntax tree    *)
(*   Spec       a plug-in session: load, accessor calls, copies, reads     *)
(*   SpecScope  medium-level handles, their usage scopes and method calls  *)
(*   SpecTyped  calls of medium-level operations against a native host     *)
(*   SpecSwell  the process-wide Swell slot                                *)
(*   SpecRace   threads making and getting the Swell slot, step by step    *)
(*   SpecTest   a run of the integration test runner (SpecTestFair: with   *)
(*              a main thread that keeps running its tasks)                *)
(***************************************************************************)
EXTENDS Integers, Sequences, FiniteSets, TLC

VARIABLES
    \* ---- generator run (SpecGen)
    tree,        \* the parsed bindings.rs (syn::File)
    gen_pc,      \* position in phase_two::generate_all
    files,       \* generated artifacts written so far: file name -> token stream
    parsed,      \* module name -> result of parse_fn_ptrs for that module
    gen_panic,   \* message of the panic that aborted the run, "" if none
    \* ---- plug-in session (Spec)
    resolver,    \* the host's GetFunc: entry point name -> address (NULL if unknown)
    instances,   \* the low-level Reaper values that exist
    get_func_log,\* every resolver invocation: [load |-> n, name |-> s]
    loads,       \* number of Reaper::load calls started
    load_panics, \* number of Reaper::load calls that panicked
    last_call,   \* the latest accessor call and what it did
    calls,       \* number of accessor calls made
    last_read,   \* the latest pointers() read
    \* ---- medium-level handles (SpecScope)
    handles,     \* the ReaperFunctions<UsageScope> values that exist
    last_op,     \* the latest medium-level method call that type-checked
    \* ---- medium-level operations (SpecTyped)
    med,         \* the latest medium-level operation and what it did
    \* ---- the global Swell slot (SpecSwell)
    swell_slot,  \* static mut Option<Swell>
    init_once,   \* the std::sync::Once guarding the slot
    swell_made,  \* the instances passed to make_available_globally, in order
    swell_get,   \* the latest Swell::get and what it did
    \* ---- plug-in context of an instance (Spec)
    last_ctx,    \* the latest plugin_context() call and what it did
    \* ---- the integration test runner (SpecTest)
    itest,       \* the run of execute_integration_test
    \* ---- threads on the global Swell slot (SpecRace)
    race         \* the slot, the Once and the threads using them

genVars == <<tree, gen_pc, files, parsed, gen_panic>>
rtVars == <<resolver, instances, get_func_log, loads, load_panics, last_call,
            calls, last_read>>
scopeVars == <<handles, last_op>>
medVars == <<med>>
swellVars == <<swell_slot, init_once, swell_made, swell_get>>
ctxVars == <<last_ctx>>
testVars == <<itest>>
raceVars == <<race>>
extVars == <<ctxVars, testVars, raceVars>>
laterVars == <<medVars, swellVars, extVars>>
vars == <<genVars, rtVars, scopeVars, medVars, swellVars, extVars>>

(***************************************************************************)
(* Bounds of the model.                                                    *)
(***************************************************************************)
MaxItems == 2       \* items in the function pointer module of a tree
MaxInstances == 2   \* low-level Reaper values alive in a session
MaxCalls == 2       \* accessor calls counted in a session
MaxHandles == 3     \* medium-level handles alive

(***************************************************************************)
(* Small helpers.                                                          *)
(***************************************************************************)
Range(s) == {s[i] : i \in DOMAIN s}

SeqsUpTo(S, n) == UNION {[1..k -> S] : k \in 0..n}

IsInjective(s) == \A i, j \in DOMAIN s : s[i] = s[j] => i = j

\* The first index of s whose element satisfies P, 0 when there is none
\* (Iterator::find / find_map).
FirstIndex(s, P(_)) ==
    IF \E i \in DOMAIN s : P(s[i])
    THEN CHOOSE i \in DOMAIN s : P(s[i]) /\ \A j \in 1..(i - 1) : ~P(s[j])
    ELSE 0

\* A computation that either panics with a message or yields a value.
Ok(v) == [panic |-> "", value |-> v]
Panicked(msg, dummy) == [panic |-> msg, value |-> dummy]

(***************************************************************************)
(* The syn syntax tree of bindings.rs, as far as the generator looks at   *)
(* it.                                                                     *)
(***************************************************************************)
\* syn::Type. kind: "Path" (segments), "Ptr" (raw pointer), "BareFn" (sig).
NoSig == [unsafety |-> FALSE, inputs |-> <<>>, output |-> "Default"]
TyPtr == [kind |-> "Ptr", segments |-> <<>>, sig |-> NoSig]
TyPath(segments) == [kind |-> "Path", segments |-> segments, sig |-> NoSig]
TyBareFn(sig) == [kind |-> "BareFn", segments |-> <<>>, sig |-> sig]

\* syn::PathSegment with its PathArguments.
Seg(ident) == [ident |-> ident, arguments |-> "None", args |-> <<>>]
SegParen(ident) == [ident |-> ident, arguments |-> "Parenthesized", args |-> <<>>]
SegAngle(ident, args) == [ident |-> ident, arguments |-> "AngleBracketed", args |-> args]

\* syn::GenericArgument.
ArgType(ty) == [kind |-> "Type", ty |-> ty]
ArgLifetime == [kind |-> "Lifetime", ty |-> TyPtr]

\* syn::BareFnArg: the parameter's name and type. Parameter types are plain
\* paths (c_int, bool) or raw pointers.
TyPlain == TyPath(<<Seg("c_int")>>)
Param(name, ty) == [name |-> name, ty |-> ty]

\* syn::TypeBareFn as bindgen emits it: unsafe extern "C" fn(inputs) -> output.
BareFn(inputs, output) == [unsafety |-> TRUE, inputs |-> inputs, output |-> output]

Signatures ==
    { BareFn(<<>>, "c_int"),
      BareFn(<<Param("proj", TyPtr)>>, "c_int"),
      BareFn(<<Param("proj", TyPtr), Param("trackidx", TyPlain)>>, "Ptr"),
      BareFn(<<Param("command", TyPlain), Param("proj", TyPtr)>>, "Default"),
      BareFn(<<Param("idx", TyPlain), Param("wantDefaults", TyPlain)>>, "Default") }

\* ::std::option::Option<unsafe extern "C" fn(..)>
OptionOf(args) == TyPath(<<Seg("std"), Seg("option"), SegAngle("Option", args)>>)

GoodTypes == { OptionOf(<<ArgType(TyBareFn(s))>>) : s \in Signatures }

BadTypes ==
    { TyPtr,                                               \* not a path type
      TyPath(<<Seg("std"), Seg("os"), Seg("raw"), Seg("c_int")>>), \* no Option
      TyPath(<<Seg("std"), Seg("option"), Seg("Option")>>),       \* no <..>
      TyPath(<<Seg("std"), Seg("option"), SegParen("Option")>>),  \* Option(..)
      OptionOf(<<>>),                                      \* Option<>
      OptionOf(<<ArgType(TyPlain)>>),                      \* Option<c_int>
      OptionOf(<<ArgLifetime>>) }                          \* Option<'a>

StaticTypes == GoodTypes \cup BadTypes

\* syn::ForeignItem.
Static(ident, ty) == [kind |-> "Static", ident |-> ident, ty |-> ty]
ForeignFn(ident) == [kind |-> "Fn", ident |-> ident, ty |-> TyPtr]

\* syn::Item: a module (ident, content: Some(items) or None), an extern block
\* (its foreign items), or anything else.
Mod(ident, items) ==
    [kind |-> "Mod", ident |-> ident, content |-> TRUE, items |-> items, foreign |-> <<>>]
ModDecl(ident) ==
    [kind |-> "Mod", ident |-> ident, content |-> FALSE, items |-> <<>>, foreign |-> <<>>]
ForeignMod(foreign) ==
    [kind |-> "ForeignMod", ident |-> "", content |-> FALSE, items |-> <<>>, foreign |-> foreign]
OtherItem ==
    [kind |-> "Other", ident |-> "", content |-> FALSE, items |-> <<>>, foreign |-> <<>>]

StaticNames == {"CountTracks", "GetTrack"}

\* What an item of the function pointer module can be.
FnModItems ==
    { ForeignMod(<<Static(n, ty)>>) : n \in StaticNames, ty \in StaticTypes }
    \cup { ForeignMod(<<Static("CountTracks", OptionOf(<<ArgType(TyBareFn(BareFn(<<>>, "c_int")))>>)),
                        Static("GetTrack", TyPtr)>>),
           ForeignMod(<<ForeignFn("GetActiveWindow")>>),
           OtherItem }

\* The swell_functions module of a tree: missing, empty, one function
\* pointer, or one static of a wrong shape.
SwellVariants ==
    { <<>>,
      <<Mod("swell_functions", <<>>)>>,
      <<Mod("swell_functions",
            <<ForeignMod(<<Static("GetFocus",
                 OptionOf(<<ArgType(TyBareFn(BareFn(<<>>, "Ptr")))>>))>>)>>)>>,
      <<Mod("swell_functions", <<ForeignMod(<<Static("GetFocus", TyPtr)>>)>>)>> }

File(items) == [items |-> items]

\* bindings.rs as bindgen writes it: one module root holding the modules.
WellShapedFiles ==
    { File(<<Mod("root", <<Mod("reaper_functions", its)>> \o sw)>>) :
        its \in SeqsUpTo(FnModItems, MaxItems), sw \in SwellVariants }

\* bindings.rs of another shape.
OneFn == <<ForeignMod(<<Static("CountTracks",
             OptionOf(<<ArgType(TyBareFn(BareFn(<<>>, "c_int")))>>))>>)>>

OddFiles ==
    { File(<<>>),
      File(<<Mod("other", <<Mod("reaper_functions", OneFn)>>)>>),
      File(<<ModDecl("root")>>),
      File(<<OtherItem>>),
      File(<<Mod("root", <<Mod("reaper_functions", OneFn)>>), OtherItem>>),
      File(<<Mod("root", <<>>)>>),
      File(<<Mod("root", <<Mod("swell_functions", <<>>)>>)>>),
      File(<<Mod("root", <<ModDecl("reaper_functions"), Mod("swell_functions", <<>>)>>)>>),
      File(<<Mod("root", <<OtherItem, Mod("raw", OneFn),
                           Mod("reaper_functions", OneFn), Mod("swell_functions", OneFn)>>)>>) }

Trees == WellShapedFiles \cup OddFiles


(***************************************************************************)
(* The declaration extractor (phase_two of low/build.rs).                  *)
(***************************************************************************)
NoFnPtr == [name |-> "", signature |-> NoSig]

IsRootMod(items) ==
    /\ Len(items) = 1
    /\ items[1].kind = "Mod"
    /\ items[1].content
    /\ items[1].ident = "root"

\* An extern block holding exactly one static: what bindgen emits for one
\* function pointer variable.
IsSingleStatic(item) ==
    /\ item.kind = "ForeignMod"
    /\ Len(item.foreign) = 1
    /\ item.foreign[1].kind = "Static"

\* The statics of the module module_name of root, in the order of the tree.
filter_fn_ptr_items(bindings_tree, module_name) ==
    IF ~IsRootMod(bindings_tree.items)
    THEN Panicked("root mod not found", <<>>)
    ELSE LET root_mod_items == bindings_tree.items[1].items
             IsFnPtrMod(item) ==
                 item.kind = "Mod" /\ item.content /\ item.ident = module_name
             k == FirstIndex(root_mod_items, IsFnPtrMod)
         IN  IF k = 0
             THEN Panicked("function pointer mod not found", <<>>)
             ELSE LET kept == SelectSeq(root_mod_items[k].items, IsSingleStatic)
                  IN  Ok([i \in DOMAIN kept |-> kept[i].foreign[1]])

IsOptionSegment(seg) == seg.ident = "Option"

\* A static whose Option is missing or malformed is taken as a function
\* without parameters instead of stopping the build.
map_to_fn_ptr_lenient(item) ==
    LET segs == item.ty.segments
        k == FirstIndex(segs, IsOptionSegment)
    IN  IF /\ item.ty.kind = "Path"
           /\ k # 0
           /\ segs[k].arguments = "AngleBracketed"
           /\ Len(segs[k].args) > 0
           /\ segs[k].args[1].kind = "Type"
           /\ segs[k].args[1].ty.kind = "BareFn"
        THEN Ok([name |-> item.ident, signature |-> segs[k].args[1].ty.sig])
        ELSE Ok([name |-> item.ident, signature |-> BareFn(<<>>, "Default")])

\* The name and the bare function type inside Option<..> of one static.
map_to_fn_ptr(item) ==
    IF item.ty.kind # "Path"
    THEN Panicked("fn ptr item doesn't have path type", NoFnPtr)
    ELSE LET segs == item.ty.segments
             k == FirstIndex(segs, IsOptionSegment)
         IN  IF k = 0
             THEN Panicked("Option not found in fn ptr item", NoFnPtr)
             ELSE LET option_segment == segs[k]
                  IN  IF option_segment.arguments # "AngleBracketed"
                      THEN Panicked("Option type doesn't have angle bracket", NoFnPtr)
                      ELSE IF Len(option_segment.args) = 0
                      THEN Panicked("Angle bracket must have arg", NoFnPtr)
                      ELSE LET generic_arg == option_segment.args[1]
                           IN  IF generic_arg.kind = "Type" /\ generic_arg.ty.kind = "BareFn"
                               THEN Ok([name |-> item.ident,
                                        signature |-> generic_arg.ty.sig])
                               ELSE Panicked("Generic argument is not a BareFn", NoFnPtr)

HasPanicked(r) == r.panic # ""

\* filter, then map each item; the first item that panics aborts the whole
\* collection, so no Vec<FnPtr> comes back.
parse_fn_ptrs(file, module_name) ==
    LET filtered == filter_fn_ptr_items(file, module_name)
    IN  IF HasPanicked(filtered)
        THEN Panicked(filtered.panic, <<>>)
        ELSE LET mapped == [i \in DOMAIN filtered.value |-> map_to_fn_ptr(filtered.value[i])]
                 bad == FirstIndex(mapped, HasPanicked)
             IN  IF bad # 0
                 THEN Panicked(mapped[bad].panic, <<>>)
                 ELSE Ok([i \in DOMAIN mapped |-> mapped[i].value])

(***************************************************************************)
(* The binding generator.                                                  *)
(***************************************************************************)
\* Only the first parameter is looked at.
has_pointer_args_first_only(ptr) ==
    /\ Len(ptr.signature.inputs) > 0
    /\ ptr.signature.inputs[1].ty.kind = "Ptr"

has_pointer_args(ptr) ==
    \E i \in DOMAIN ptr.signature.inputs : ptr.signature.inputs[i].ty.kind = "Ptr"

\* The arguments are passed in reverse order.
generate_fn_ptr_call_reversed(signature) ==
    [func |-> "f",
     args |-> [i \in DOMAIN signature.inputs |->
                 signature.inputs[Len(signature.inputs) + 1 - i].name]]

\* f(a1, .., an): the call of the unwrapped function pointer with the
\* method's parameters, named as in the signature.
generate_fn_ptr_call(signature) ==
    [func |-> "f",
     args |-> [i \in DOMAIN signature.inputs |-> signature.inputs[i].name]]

\* The panic message does not say which function is missing.
generate_method_body_anonymous(ptr) ==
    [scrutinee |-> ptr.name,
     none_panic |-> <<"Attempt to use a function that has not been loaded">>,
     some_call |-> generate_fn_ptr_call(ptr.signature)]

\* match self.pointers.<name> { None => panic!(..), Some(f) => f(..) }
generate_method_body(ptr) ==
    [scrutinee |-> ptr.name,
     none_panic |-> <<"Attempt to use a function that has not been loaded: ", ptr.name>>,
     some_call |-> generate_fn_ptr_call(ptr.signature)]

generate_method(ptr) ==
    [attrs |-> IF has_pointer_args(ptr)
               THEN <<"# Safety", "", "REAPER can crash if you pass an invalid pointer">>
               ELSE <<>>,
     unsafety |-> has_pointer_args(ptr),
     ident |-> ptr.name,
     receiver |-> "&self",
     inputs |-> [i \in DOMAIN ptr.signature.inputs |->
                   [pat |-> ptr.signature.inputs[i].name,
                    ty |-> ptr.signature.inputs[i].ty]],
     output |-> ptr.signature.output,
     block |-> generate_method_body(ptr)]

\* The first function pointer is left out of every compartment.
build_compartments_skip_first(fn_ptrs) ==
    LET rest == IF Len(fn_ptrs) = 0 THEN <<>> ELSE Tail(fn_ptrs)
    IN  [names |-> [i \in DOMAIN rest |-> rest[i].name],
         fn_ptr_signatures |->
             [i \in DOMAIN rest |->
                 [rest[i].signature EXCEPT
                     !.unsafety = IF has_pointer_args(rest[i]) THEN @ ELSE FALSE]],
         methods |-> [i \in DOMAIN rest |-> generate_method(rest[i])]]

build_compartments(fn_ptrs) ==
    [names |-> [i \in DOMAIN fn_ptrs |-> fn_ptrs[i].name],
     fn_ptr_signatures |->
         [i \in DOMAIN fn_ptrs |->
             [fn_ptrs[i].signature EXCEPT
                 !.unsafety = IF has_pointer_args(fn_ptrs[i]) THEN @ ELSE FALSE]],
     methods |-> [i \in DOMAIN fn_ptrs |-> generate_method(fn_ptrs[i])]]

\* Every lookup asks the resolver for the literal "names" instead of the
\* name of the field.
load_assignments_literal(names) ==
    [i \in DOMAIN names |-> [field |-> names[i], lookup |-> "names"]]

\* #( #names: transmute(GetFunc(c_str!(stringify!(#names)))), )*
\* one field assignment per name, each with one resolver lookup of that name.
load_assignments(names) ==
    [i \in DOMAIN names |-> [field |-> names[i], lookup |-> names[i]]]

\* The generated source: the struct of pointers (one field per name), the
\* loader (one resolver lookup per name, assigned to the field of that
\* name), and the methods.
TokenStream(struct_name, resolve_with, c) ==
    [written |-> TRUE,
     struct_name |-> struct_name,
     resolve_with |-> resolve_with,
     fields |-> [i \in 1..(IF Len(c.names) <= Len(c.fn_ptr_signatures)
                           THEN Len(c.names) ELSE Len(c.fn_ptr_signatures)) |->
                   [name |-> c.names[i], ty |-> c.fn_ptr_signatures[i]]],
     load |-> load_assignments(c.names),
     methods |-> c.methods]

generate_reaper_token_stream(fn_ptrs) ==
    TokenStream("ReaperFunctionPointers", "plugin_context.GetFunc", build_compartments(fn_ptrs))

generate_swell_token_stream(fn_ptrs) ==
    TokenStream("SwellFunctionPointers", "get_swell_func", build_compartments(fn_ptrs))

NoFile ==
    [written |-> FALSE, struct_name |-> "", resolve_with |-> "", fields |-> <<>>,
     load |-> <<>>, methods |-> <<>>]


(***************************************************************************)
(* One run of the generator: phase_two::generate_all parses bindings.rs,   *)
(* then generates reaper.rs, then swell.rs. A panic aborts the build.      *)
(***************************************************************************)
ModuleNames == {"reaper_functions", "swell_functions"}
FileNames == {"src/reaper.rs", "src/swell.rs"}

Pending == [state |-> "pending", fn_ptrs |-> <<>>]

\* generate_reaper / generate_swell: parse the module's function pointers,
\* build the token stream, write the file.
GenerateFile(module_name, file_name, stream(_), next_pc) ==
    LET r == parse_fn_ptrs(tree, module_name)
    IN  IF HasPanicked(r)
        THEN /\ gen_pc' = "aborted"
             /\ gen_panic' = r.panic
             /\ parsed' = [parsed EXCEPT ![module_name] = [state |-> "panic", fn_ptrs |-> <<>>]]
             /\ UNCHANGED files
        ELSE /\ gen_pc' = next_pc
             /\ parsed' = [parsed EXCEPT ![module_name] = [state |-> "ok", fn_ptrs |-> r.value]]
             /\ files' = [files EXCEPT ![file_name] = stream(r.value)]
             /\ UNCHANGED gen_panic

generate_reaper ==
    /\ gen_pc = "start"
    /\ GenerateFile("reaper_functions", "src/reaper.rs", generate_reaper_token_stream,
                    "reaper_written")
    /\ UNCHANGED <<laterVars, tree, rtVars, scopeVars>>

generate_swell ==
    /\ gen_pc = "reaper_written"
    /\ GenerateFile("swell_functions", "src/swell.rs", generate_swell_token_stream, "done")
    /\ UNCHANGED <<laterVars, tree, rtVars, scopeVars>>

(***************************************************************************)
(* A plug-in session with the generated low-level API.                     *)
(***************************************************************************)
\* A raw address as the resolver answers it: null, or the address of the
\* native function `target`.
NullPtr == [null |-> TRUE, target |-> ""]
FnAddr(target) == [null |-> FALSE, target |-> target]

\* Option<fn>.
None == [some |-> FALSE, f |-> NullPtr]
Some(f) == [some |-> TRUE, f |-> f]

\* The function pointers bindings.rs declares in this session.
ReaperFnPtrs ==
    << [name |-> "CountTracks",
        signature |-> BareFn(<<Param("proj", TyPtr)>>, "c_int")],
       [name |-> "DeleteTrack",
        signature |-> BareFn(<<Param("tr", TyPtr)>>, "Default")],
       [name |-> "GetTrack",
        signature |-> BareFn(<<Param("proj", TyPtr), Param("trackidx", TyPlain)>>, "Ptr")] >>

DeclaredNames == {ReaperFnPtrs[i].name : i \in DOMAIN ReaperFnPtrs}

\* reaper.rs of this session.
Generated == generate_reaper_token_stream(ReaperFnPtrs)

FieldNames == {Generated.fields[i].name : i \in DOMAIN Generated.fields}

\* The names a host may know: the declared ones, one that bindings.rs does
\* not declare, and the literal of the loader template.
HostNames == DeclaredNames \cup {"ShowConsoleMsg", "names"}

\* Each host knows some of the names: an older REAPER lacks newer functions.
Resolvers == {[n \in HostNames |-> IF n \in known THEN FnAddr(n) ELSE NullPtr] :
                 known \in SUBSET HostNames}

\* plugin_context.GetFunc(name)
GetFunc(name) == IF name \in DOMAIN resolver THEN resolver[name] ELSE NullPtr

\* A null address is a failure of load.
load_entry_expect(addr) ==
    IF addr.null THEN Panicked("function not found", None) ELSE Ok(Some(addr))

\* std::mem::transmute of the address to Option<fn>: null is None.
load_entry(addr) == Ok(IF addr.null THEN None ELSE Some(addr))

\* #[derive(Default)]: every pointer None, no plug-in context.
DefaultReaper ==
    [pointers |-> [n \in FieldNames |-> None], plugin_context |-> FALSE, load |-> 0]

\* Reaper::load: runs the generated assignments in order.
LoadResult(generated) ==
    LET entries == [i \in DOMAIN generated.load |-> load_entry(GetFunc(generated.load[i].lookup))]
        bad == FirstIndex(entries, HasPanicked)
        AssignedTo(n) == CHOOSE i \in DOMAIN generated.load : generated.load[i].field = n
    IN  [lookups |-> IF bad = 0
                     THEN [i \in DOMAIN generated.load |-> generated.load[i].lookup]
                     ELSE [i \in 1..bad |-> generated.load[i].lookup],
         panic |-> IF bad = 0 THEN "" ELSE entries[bad].panic,
         pointers |-> [n \in FieldNames |->
                         IF bad = 0 /\ \E i \in DOMAIN generated.load : generated.load[i].field = n
                         THEN entries[AssignedTo(n)].value
                         ELSE None]]

Load ==
    /\ Len(instances) < MaxInstances
    /\ loads < MaxInstances
    /\ LET r == LoadResult(Generated)
       IN  /\ loads' = loads + 1
           /\ get_func_log' = get_func_log \o
                  [i \in DOMAIN r.lookups |-> [load |-> loads + 1, name |-> r.lookups[i]]]
           /\ IF r.panic # ""
              THEN /\ load_panics' = load_panics + 1
                   /\ UNCHANGED instances
              ELSE /\ instances' = Append(instances,
                          [pointers |-> r.pointers, plugin_context |-> TRUE,
                           load |-> loads + 1])
                   /\ UNCHANGED load_panics
    /\ UNCHANGED <<laterVars, resolver, last_call, calls, last_read, genVars, scopeVars>>

\* Default::default()
Default ==
    /\ Len(instances) < MaxInstances
    /\ instances' = Append(instances, DefaultReaper)
    /\ UNCHANGED <<laterVars, resolver, get_func_log, loads, load_panics, last_call, calls,
                   last_read, genVars, scopeVars>>

\* #[derive(Copy, Clone)]: a bitwise copy.
Clone(i) ==
    /\ Len(instances) < MaxInstances
    /\ instances' = Append(instances, instances[i])
    /\ UNCHANGED <<laterVars, resolver, get_func_log, loads, load_panics, last_call, calls,
                   last_read, genVars, scopeVars>>

\* pointers(): a shared reference to the table.
Pointers(i) ==
    /\ last_read' = [inst |-> i, pointers |-> instances[i].pointers]
    /\ UNCHANGED <<laterVars, resolver, instances, get_func_log, loads, load_panics, last_call,
                   calls, genVars, scopeVars>>

ArgVals == {1, 2}
RetVals == {0, 3}

\* The method takes the pointer out of the table.
self_after_method_take(self, method) ==
    [self EXCEPT !.pointers[method.block.scrutinee] = None]

\* The receiver of a generated method is &self: the value is as before.
self_after_method(self, method) == self

\* Runs the generated method on self with the arguments argv (in the order
\* of the method's parameters); native_ret is what the native function
\* returns if it is called.
ExecMethod(self, method, argv, native_ret) ==
    LET PosOf(pat) == CHOOSE j \in DOMAIN method.inputs : method.inputs[j].pat = pat
        slot == self.pointers[method.block.scrutinee]
        call == method.block.some_call
    IN  IF ~slot.some
        THEN [outcome |-> "panicked",
              panic_msg |-> method.block.none_panic,
              native |-> <<>>,
              ret |-> -1]
        ELSE [outcome |-> "returned",
              panic_msg |-> <<>>,
              native |-> <<[addr |-> slot.f,
                            args |-> [j \in DOMAIN call.args |-> argv[PosOf(call.args[j])]],
                            result |-> native_ret]>>,
              ret |-> native_ret]

NoCall ==
    [inst |-> 0, self |-> DefaultReaper, name |-> "", args |-> <<>>, outcome |-> "none",
     panic_msg |-> <<>>, native |-> <<>>, ret |-> -1]

\* A call of the accessor Generated.methods[m] on instance i.
CallAccessor(i, m) ==
    /\ calls < MaxCalls
    /\ LET method == Generated.methods[m]
       IN  \E argv \in [DOMAIN method.inputs -> ArgVals], native_ret \in RetVals :
             LET r == ExecMethod(instances[i], method, argv, native_ret)
             IN  /\ last_call' = [inst |-> i, self |-> instances[i],
                                  name |-> method.ident, args |-> argv,
                                  outcome |-> r.outcome, panic_msg |-> r.panic_msg,
                                  native |-> r.native, ret |-> r.ret]
                 /\ instances' = [instances EXCEPT
                                     ![i] = self_after_method(instances[i], method)]
    /\ calls' = calls + 1
    /\ UNCHANGED <<laterVars, resolver, get_func_log, loads, load_panics, last_read, genVars,
                   scopeVars>>

NoCtx == [inst |-> 0, self |-> DefaultReaper, outcome |-> "none", panic_msg |-> ""]

\* The context is handed out whether or not the instance has one.
expect_plugin_context_unchecked(self) ==
    [outcome |-> "returned", panic_msg |-> ""]

\* self.plugin_context.as_ref().expect(..)
expect_plugin_context(self) ==
    IF self.plugin_context
    THEN [outcome |-> "returned", panic_msg |-> ""]
    ELSE [outcome |-> "panicked",
          panic_msg |-> "plug-in context not available on demo instances"]

\* plugin_context() on instance i.
plugin_context(i) ==
    /\ LET r == expect_plugin_context(instances[i])
       IN  last_ctx' = [inst |-> i, self |-> instances[i],
                        outcome |-> r.outcome, panic_msg |-> r.panic_msg]
    /\ UNCHANGED <<genVars, rtVars, scopeVars, medVars, swellVars, testVars, raceVars>>


(***************************************************************************)
(* The medium-level handle ReaperFunctions<UsageScope> and the usage       *)
(* scopes.                                                                 *)
(***************************************************************************)
\* Types that can stand for the parameter UsageScope: the two scope markers
\* and, inside the crate, any other type.
ScopeTypes == {"MainThreadScope", "RealTimeAudioThreadScope", "OtherType"}

\* The audio-thread privilege is implemented for the main-thread marker too.
TraitImplsWidened ==
    { <<"MainThreadOnly", "MainThreadScope">>,
      <<"AudioThreadOnly", "RealTimeAudioThreadScope">>,
      <<"AudioThreadOnly", "MainThreadScope">>,
      <<"Sealed", "MainThreadScope">>,
      <<"Sealed", "RealTimeAudioThreadScope">> }

\* The impl items: <<trait, type>>.
TraitImpls ==
    { <<"MainThreadOnly", "MainThreadScope">>,
      <<"AudioThreadOnly", "RealTimeAudioThreadScope">>,
      <<"Sealed", "MainThreadScope">>,
      <<"Sealed", "RealTimeAudioThreadScope">> }

Implements(trait, ty) == <<trait, ty>> \in TraitImpls

\* The bound `where UsageScope: ..` of a method, "" when it has none.
MethodBound ==
    [enum_projects |-> "MainThreadOnly",
     get_track |-> "MainThreadOnly",
     count_tracks |-> "MainThreadOnly",
     get_midi_input |-> "AudioThreadOnly",
     is_in_real_time_audio |-> "",
     show_console_msg |-> ""]

Methods == DOMAIN MethodBound

\* A call h.op(..) type-checks when the scope type of h satisfies the bound.
TypeChecks(scope, op) == MethodBound[op] = "" \/ Implements(MethodBound[op], scope)

\* The copy is a handle of the default scope parameter.
ReaperFunctions_clone_default_scope(self) == [self EXCEPT !.scope = "MainThreadScope"]

\* #[derive(Clone)]: fn clone(&self) -> Self copies low and the PhantomData.
ReaperFunctions_clone(self) == self

\* ReaperFunctions::new(low): the caller's type fixes UsageScope.
NewHandle(scope, low) ==
    /\ Len(handles) < MaxHandles
    /\ handles' = Append(handles, [scope |-> scope, low |-> low, constructed_as |-> scope,
                                   via |-> "new"])
    /\ UNCHANGED <<laterVars, last_op, genVars, rtVars>>

\* #[derive(Default)] needs UsageScope: Default, which only MainThreadScope
\* derives; low is the default instance.
DefaultHandle ==
    /\ Len(handles) < MaxHandles
    /\ handles' = Append(handles, [scope |-> "MainThreadScope", low |-> "default",
                                   constructed_as |-> "MainThreadScope", via |-> "default"])
    /\ UNCHANGED <<laterVars, last_op, genVars, rtVars>>

\* h.clone(). (Whether Clone is implemented depends on UsageScope: Clone;
\* every handle may be cloned here.)
CloneHandle(h) ==
    /\ Len(handles) < MaxHandles
    /\ handles' = Append(handles, [ReaperFunctions_clone(handles[h]) EXCEPT !.via = "clone"])
    /\ UNCHANGED <<laterVars, last_op, genVars, rtVars>>

\* A method call on handle h that the compiler accepts.
CallMethod(h, op) ==
    /\ TypeChecks(handles[h].scope, op)
    /\ last_op' = [handle |-> h, op |-> op, scope |-> handles[h].scope,
                   constructed_as |-> handles[h].constructed_as]
    /\ UNCHANGED <<laterVars, handles, genVars, rtVars>>

NoOp == [handle |-> 0, op |-> "", scope |-> "", constructed_as |-> ""]

(***************************************************************************)
(* The process-wide Swell slot (low/src/swell_impl.rs).                    *)
(***************************************************************************)
\* The Swell values a plug-in may hold, by identity.
SwellInstances == {1, 2, 3}

NoSwell == 0

MaxSwellCalls == 4  \* make_available_globally calls in a process

NoGet == [outcome |-> "none", value |-> NoSwell, panic_msg |-> "", made_before |-> 0]

\* INIT_INSTANCE.call_once(|| INSTANCE = Some(functions)): the closure runs
\* on the first call only. The result is the pair <<Once, slot>>.
call_once_every_time(once, slot, functions) == <<"done", functions>>

call_once(once, slot, functions) ==
    IF once = "new" THEN <<"done", functions>> ELSE <<once, slot>>

\* Swell::make_available_globally
make_available_globally(functions) ==
    /\ Len(swell_made) < MaxSwellCalls
    /\ LET r == call_once(init_once, swell_slot, functions)
       IN  /\ init_once' = r[1]
           /\ swell_slot' = r[2]
    /\ swell_made' = Append(swell_made, functions)
    /\ UNCHANGED <<swell_get, genVars, rtVars, scopeVars, medVars, extVars>>

\* The message of Swell::get's expect. The source writes the two function
\* names in backquotes, a character a TLA+ string cannot hold.
GetBeforeMadeMsg == "call make_available_globally() before using get()"

\* INSTANCE.as_ref().expect(..)
expect_instance_or_first(slot, made) ==
    IF slot = NoSwell
    THEN [outcome |-> "ok", value |-> 1, panic_msg |-> "", made_before |-> Len(made)]
    ELSE [outcome |-> "ok", value |-> slot, panic_msg |-> "", made_before |-> Len(made)]

expect_instance(slot, made) ==
    IF slot = NoSwell
    THEN [outcome |-> "panic", value |-> NoSwell,
          panic_msg |-> GetBeforeMadeMsg,
          made_before |-> Len(made)]
    ELSE [outcome |-> "ok", value |-> slot, panic_msg |-> "", made_before |-> Len(made)]

\* Swell::get
get ==
    /\ swell_get' = expect_instance(swell_slot, swell_made)
    /\ UNCHANGED <<swell_slot, init_once, swell_made, genVars, rtVars, scopeVars, medVars,
                   extVars>>

SwellIdle ==
    /\ swell_slot = NoSwell
    /\ init_once = "new"
    /\ swell_made = <<>>
    /\ swell_get = NoGet

(***************************************************************************)
(* Medium-level operations (medium/src/reaper_functions.rs). One call of   *)
(* an operation is one step: it runs against a host whose native           *)
(* functions answer as the input `in` says, and `med` records what the     *)
(* call did: the native calls it made, in order, what it allocated, which  *)
(* output slots it read, the closure invocations, and how it ended.        *)
(***************************************************************************)
MaxBufferSize == 2  \* largest string buffer a caller asks for

\* Raw pointers: the null pointer and two addresses.
null_mut == 0
RawPointers == {0, 1, 2}

\* Option and Result values.
OptNone == <<"None">>
OptSome(v) == <<"Some", v>>
ResOk(v) == <<"Ok", v>>
ResErr(msg) == <<"Err", msg>>
Unit == <<"()">>

\* NonNull::new
NonNull_new_unchecked(ptr) == OptSome(ptr)

NonNull_new(ptr) == IF ptr = null_mut THEN OptNone ELSE OptSome(ptr)

\* ProjectContext and its raw form: the current project is the null project.
CurrentProject == [kind |-> "CurrentProject", p |-> null_mut]
Proj(p) == [kind |-> "Proj", p |-> p]
ProjectContexts == {CurrentProject, Proj(1)}

to_raw(project) == IF project.kind = "Proj" THEN project.p ELSE null_mut

\* The native functions the modelled operations use.
NativeNames ==
    {"ValidatePtr2", "GetTrack", "CountTracks", "Main_OnCommandEx", "Undo_BeginBlock2",
     "GetMasterTrack", "SetCurrentBPM", "GetSelectedTrack2", "GetCurrentProjectInLoadSave",
     "GetTrackEnvelopeByName", "TrackFX_GetFloatingWindow", "EnumProjects",
     "GetMIDIInputName", "GetMIDIOutputName", "TrackFX_GetPreset", "TrackFX_GetFXName",
     "TrackFX_AddByName", "TrackFX_GetPresetIndex", "CreateTrackSend", "GetFocusedFX",
     "GetLastTouchedFX", "GetTrackUIVolPan", "GetTrackSendUIVolPan",
     "TrackFX_GetParameterStepSizes", "TrackFX_GetParamEx", "stringToGuid", "genGuid",
     "SectionFromUniqueID", "GetMidiInput", "Undo_CanUndo2", "Undo_CanRedo2",
     "ReverseNamedCommandLookup", "TrackFX_GetParamName", "TrackFX_GetFormattedParamValue",
     "TrackFX_FormatParamValueNormalized", "GetTrackStateChunk", "KBD_OnMainActionEx"}

\* The call before anything happened.
NoTypedCall ==
    [op |-> "", in |-> <<>>, native |-> <<>>, outcome |-> "none", value |-> Unit,
     panic_msg |-> <<>>, reads |-> {}, alloc |-> <<>>, buf |-> <<>>, closure |-> <<>>]

Begin(op, in) == [NoTypedCall EXCEPT !.op = op, !.in = in, !.outcome = "ok"]

Aborted(c) == c.outcome = "panic"

Panic(c, msg) == [c EXCEPT !.outcome = "panic", !.panic_msg = msg, !.value = Unit]

Return(c, v) == IF Aborted(c) THEN c ELSE [c EXCEPT !.value = v]

\* A call of the low-level accessor `name` (generated method body): it
\* panics if the entry point was not loaded, else it calls the native
\* function.
LowCall(c, name, args) ==
    IF Aborted(c) THEN c
    ELSE IF name \in c.in.unloaded
         THEN Panic(c, <<"Attempt to use a function that has not been loaded: ", name>>)
         ELSE [c EXCEPT !.native = Append(@, [name |-> name, args |-> args])]

\* validate_ptr_2(CurrentProject, p)
validate_ptr_2(c, project, pointer) ==
    LowCall(c, "ValidatePtr2", <<to_raw(project), pointer, "ReaProject*">>)

\* require_valid_project: an explicit project is validated, the current
\* project is not.
require_valid_project_lenient(c) ==
    IF c.in.project.kind = "Proj"
    THEN validate_ptr_2(c, CurrentProject, c.in.project.p)
    ELSE c

require_valid_project(c) ==
    IF c.in.project.kind = "Proj"
    THEN LET v == validate_ptr_2(c, CurrentProject, c.in.project.p)
         IN  IF Aborted(v) THEN v
             ELSE IF c.in.valid THEN v
                  ELSE Panic(v, <<"ReaProject doesn't exist anymore">>)
    ELSE c

\* require_non_null_panic: the pointer, or a panic if it is null.
require_non_null_panic(c, ptr) ==
    IF Aborted(c) THEN c
    ELSE IF ptr = null_mut THEN Panic(c, <<"require_non_null_panic">>)
         ELSE Return(c, ptr)

\* ---- operations on a project ------------------------------------------
get_track_unchecked(c) ==
    Return(LowCall(c, "GetTrack", <<to_raw(c.in.project), c.in.index>>),
           NonNull_new(c.in.ret))

get_track(in) == get_track_unchecked(require_valid_project(Begin("get_track", in)))

count_tracks_unchecked(c) ==
    Return(LowCall(c, "CountTracks", <<to_raw(c.in.project)>>), c.in.ret)

count_tracks(in) == count_tracks_unchecked(require_valid_project(Begin("count_tracks", in)))

main_on_command_ex_unchecked(c) ==
    Return(LowCall(c, "Main_OnCommandEx", <<c.in.index, 0, to_raw(c.in.project)>>), Unit)

main_on_command_ex(in) ==
    main_on_command_ex_unchecked(require_valid_project(Begin("main_on_command_ex", in)))

undo_begin_block_2_unchecked(c) ==
    Return(LowCall(c, "Undo_BeginBlock2", <<to_raw(c.in.project)>>), Unit)

undo_begin_block_2(in) ==
    undo_begin_block_2_unchecked(require_valid_project(Begin("undo_begin_block_2", in)))

get_master_track_unchecked(c) ==
    require_non_null_panic(LowCall(c, "GetMasterTrack", <<to_raw(c.in.project)>>), c.in.ret)

get_master_track(in) ==
    get_master_track_unchecked(require_valid_project(Begin("get_master_track", in)))

set_current_bpm_unchecked(c) ==
    Return(LowCall(c, "SetCurrentBPM", <<to_raw(c.in.project), c.in.index, TRUE>>), Unit)

set_current_bpm(in) ==
    set_current_bpm_unchecked(require_valid_project(Begin("set_current_bpm", in)))

get_selected_track_2_unchecked(c) ==
    Return(LowCall(c, "GetSelectedTrack2", <<to_raw(c.in.project), c.in.index, TRUE>>),
           NonNull_new(c.in.ret))

get_selected_track_2(in) ==
    get_selected_track_2_unchecked(require_valid_project(Begin("get_selected_track_2", in)))

\* ---- operations returning an optional pointer --------------------------
get_current_project_in_load_save(in) ==
    Return(LowCall(Begin("get_current_project_in_load_save", in),
                   "GetCurrentProjectInLoadSave", <<>>),
           NonNull_new(in.ret))

get_track_envelope_by_name(in) ==
    Return(LowCall(Begin("get_track_envelope_by_name", in),
                   "GetTrackEnvelopeByName", <<in.track, "env_name">>),
           NonNull_new(in.ret))

track_fx_get_floating_window(in) ==
    Return(LowCall(Begin("track_fx_get_floating_window", in),
                   "TrackFX_GetFloatingWindow", <<in.track, in.index>>),
           NonNull_new(in.ret))

\* ---- string buffers ---------------------------------------------------
\* Bytes: NUL, the byte with_string_buffer fills a fresh buffer with, an
\* ASCII letter and a byte that is not valid UTF-8 on its own.
NUL == 0
FillByte == 1
NonUtf8Byte == 255
StrBytes == {65, NonUtf8Byte}

\* The address of the buffer with_string_buffer allocates.
BufferPtr == 9

\* The C string at the start of a byte buffer: the bytes before the first NUL.
RECURSIVE CStrOf(_)
CStrOf(bytes) ==
    IF bytes = <<>> \/ Head(bytes) = NUL THEN <<>>
    ELSE <<Head(bytes)>> \o CStrOf(Tail(bytes))

Take(s, n) == SubSeq(s, 1, IF n < Len(s) THEN n ELSE Len(s))

\* What a native function leaves in a buffer of max_size bytes it was asked
\* to fill: at most max_size - 1 bytes of its string and the terminating
\* NUL if it fills the buffer as a well-behaved host does, else the bytes
\* in.raw it writes at the start of the buffer (none if it does not write).
NativeFill(in, buffer, max_size) ==
    IF in.fills
    THEN LET written == Take(in.str, max_size - 1) \o <<NUL>>
         IN  written \o SubSeq(buffer, Len(written) + 1, Len(buffer))
    ELSE in.raw \o SubSeq(buffer, Len(in.raw) + 1, Len(buffer))

\* The owned string keeps the length of the vector it was made from.
CString_from_raw_keep_len(raw) == SubSeq(raw, 1, Len(raw) - 1)

\* CString::from_raw(raw): the length is recalculated from the pointer, so
\* the string ends before the first NUL.
CString_from_raw(raw) == CStrOf(raw)

\* with_string_buffer(max_size, |buffer, max_size| low.name(args.., buffer, max_size)):
\* the owned string is left in c.buf, the closure's result is in.ret.
with_string_buffer(c, max_size, name, args) ==
    LET vec == [i \in 1..max_size |-> FillByte]
        c_string == vec \o <<NUL>>
        called == LowCall([c EXCEPT !.alloc = Append(@, max_size)], name,
                          args \o <<BufferPtr, max_size>>)
    IN  IF Aborted(called) THEN called
        ELSE [called EXCEPT !.buf = CString_from_raw(NativeFill(c.in, c_string, max_size))]

IsUtf8(s) == \A i \in DOMAIN s : s[i] # NonUtf8Byte

enum_projects(in) ==
    LET c == Begin("enum_projects", in)
    IN  IF in.buffer_size = 0
        THEN LET c1 == LowCall(c, "EnumProjects", <<in.index, null_mut, 0>>)
             IN  IF Aborted(c1) THEN c1
                 ELSE IF in.ret = null_mut THEN Return(c1, OptNone)
                 ELSE Return(c1, OptSome([project |-> in.ret, file_path |-> OptNone]))
        ELSE LET c1 == with_string_buffer(c, in.buffer_size, "EnumProjects", <<in.index>>)
             IN  IF Aborted(c1) THEN c1
                 ELSE IF in.ret = null_mut THEN Return(c1, OptNone)
                 ELSE IF Len(c1.buf) = 0
                      THEN Return(c1, OptSome([project |-> in.ret, file_path |-> OptNone]))
                 ELSE IF ~IsUtf8(c1.buf)
                      THEN Panic(c1, <<"project file path contains non-UTF8 characters">>)
                 ELSE Return(c1, OptSome([project |-> in.ret,
                                          file_path |-> OptSome(c1.buf)]))

\* get_midi_input_name, get_midi_output_name and track_fx_get_preset share
\* one shape: a flag from the native function and an optional name.
FlagAndName(c, name, args) ==
    IF c.in.buffer_size = 0
    THEN LET c1 == LowCall(c, name, args \o <<null_mut, 0>>)
         IN  Return(c1, [flag |-> c.in.ret, name |-> OptNone])
    ELSE LET c1 == with_string_buffer(c, c.in.buffer_size, name, args)
         IN  IF Aborted(c1) THEN c1
             ELSE IF Len(c1.buf) = 0
                  THEN Return(c1, [flag |-> c.in.ret, name |-> OptNone])
             ELSE Return(c1, [flag |-> c.in.ret, name |-> OptSome(c1.buf)])

get_midi_input_name(in) ==
    FlagAndName(Begin("get_midi_input_name", in), "GetMIDIInputName", <<in.index>>)

get_midi_output_name(in) ==
    FlagAndName(Begin("get_midi_output_name", in), "GetMIDIOutputName", <<in.index>>)

track_fx_get_preset(in) ==
    FlagAndName(Begin("track_fx_get_preset", in), "TrackFX_GetPreset",
                <<in.track, in.index>>)

\* assert!(buffer_size > 0)
assert_buffer_size(c) ==
    IF c.in.buffer_size > 0 THEN c
    ELSE Panic(c, <<"assertion failed: buffer_size > 0">>)

track_fx_get_fx_name(in) ==
    LET c == assert_buffer_size(Begin("track_fx_get_fx_name", in))
    IN  IF Aborted(c) THEN c
        ELSE LET c1 == with_string_buffer(c, in.buffer_size, "TrackFX_GetFXName",
                                          <<in.track, in.index>>)
             IN  IF Aborted(c1) THEN c1
                 ELSE IF ~in.ret
                      THEN Return(c1, ResErr("couldn't get FX name (probably FX doesn't exist)"))
                 ELSE Return(c1, ResOk(c1.buf))

\* track_fx_get_param_name, track_fx_get_formatted_param_value,
\* track_fx_format_param_value_normalized and get_track_state_chunk share
\* the shape of track_fx_get_fx_name: the assertion, the buffer call, then
\* Err(msg) or Ok(string).
AssertedString(c, name, args, msg) ==
    LET c0 == assert_buffer_size(c)
    IN  IF Aborted(c0) THEN c0
        ELSE LET c1 == with_string_buffer(c0, c.in.buffer_size, name, args)
             IN  IF Aborted(c1) THEN c1
                 ELSE IF ~c.in.ret THEN Return(c1, ResErr(msg))
                 ELSE Return(c1, ResOk(c1.buf))

track_fx_get_param_name(in) ==
    AssertedString(Begin("track_fx_get_param_name", in), "TrackFX_GetParamName",
                   <<in.track, in.index, 0>>,
                   "couldn't get FX parameter name (probably FX or parameter doesn't exist)")

track_fx_get_formatted_param_value(in) ==
    AssertedString(Begin("track_fx_get_formatted_param_value", in),
                   "TrackFX_GetFormattedParamValue", <<in.track, in.index, 0>>,
                   "couldn't format current FX parameter value (probably FX or parameter doesn't exist)")

track_fx_format_param_value_normalized(in) ==
    AssertedString(Begin("track_fx_format_param_value_normalized", in),
                   "TrackFX_FormatParamValueNormalized", <<in.track, in.index, 0, 0>>,
                   "couldn't format FX parameter value (FX maybe doesn't support Cockos extensions or FX or parameter doesn't exist)")

\* The native function takes the cache hint after the buffer and its size;
\* the model lists it with the leading arguments.
get_track_state_chunk(in) ==
    AssertedString(Begin("get_track_state_chunk", in), "GetTrackStateChunk",
                   <<in.track, FALSE>>, "couldn't get track chunk")

\* get_track_state_chunk of src/medium_level/reaper.rs: no assertion, the
\* error carries no message.
medium_level_get_track_state_chunk(in) ==
    LET c == Begin("medium_level::get_track_state_chunk", in)
        c1 == with_string_buffer(c, in.buffer_size, "GetTrackStateChunk", <<in.track, FALSE>>)
    IN  IF Aborted(c1) THEN c1
        ELSE IF ~in.ret THEN Return(c1, ResErr(""))
        ELSE Return(c1, ResOk(c1.buf))

\* with_string_buffer on its own, with a closure that lets the native side
\* write what it likes into the buffer.
with_string_buffer_call(in) ==
    with_string_buffer(Begin("with_string_buffer", in), in.buffer_size, "fill_buffer", <<>>)

\* ---- action value changes ----------------------------------------------
\* 7-bit and 14-bit values: the ends of the range and the values around
\* every place where the low seven bits or the next seven bits carry.
U7Values == {0, 1, 63, 64, 126, 127}
U14Values ==
    {0, 1, 126, 127, 128, 129, 255, 256, 257, 8191, 8192, 8193, 16255, 16256, 16257,
     16382, 16383}

ActionValueChange(kind, v) == [kind |-> kind, v |-> v]

ActionValueChanges ==
    {ActionValueChange(kind, v) :
        kind \in {"AbsoluteLowRes", "Relative1", "Relative2", "Relative3"}, v \in U7Values}
        \cup {ActionValueChange("AbsoluteHighRes", v) : v \in U14Values}

\* v >> n and v & 0x7f on a non-negative integer.
shr(v, n) == v \div (2 ^ n)
and_0x7f(v) == v % 128

\* The high part is shifted by a whole byte.
encode_value_change_bytewise(value_change) ==
    CASE value_change.kind = "AbsoluteLowRes" -> <<value_change.v, -1, 0>>
      [] value_change.kind = "AbsoluteHighRes" ->
             <<and_0x7f(shr(value_change.v, 8)), and_0x7f(value_change.v), 0>>
      [] value_change.kind = "Relative1" -> <<value_change.v, -1, 1>>
      [] value_change.kind = "Relative2" -> <<value_change.v, -1, 2>>
      [] value_change.kind = "Relative3" -> <<value_change.v, -1, 3>>

\* let (val, valhw, relmode) = match value_change { .. }
encode_value_change(value_change) ==
    CASE value_change.kind = "AbsoluteLowRes" -> <<value_change.v, -1, 0>>
      [] value_change.kind = "AbsoluteHighRes" ->
             <<and_0x7f(shr(value_change.v, 7)), and_0x7f(value_change.v), 0>>
      [] value_change.kind = "Relative1" -> <<value_change.v, -1, 1>>
      [] value_change.kind = "Relative2" -> <<value_change.v, -1, 2>>
      [] value_change.kind = "Relative3" -> <<value_change.v, -1, 3>>

kbd_on_main_action_ex(in) ==
    LET e == encode_value_change(in.value_change)
        c == LowCall(Begin("kbd_on_main_action_ex", in), "KBD_OnMainActionEx",
                     <<in.index, e[1], e[2], e[3], null_mut, to_raw(in.project)>>)
    IN  Return(c, in.ret)

\* ---- sentinel returns --------------------------------------------------
\* A u32 is held as its two 16-bit words. `as u32` of an i32 keeps the bits.
Word == 65536

as_u32(v) == [hi |-> (v \div Word) % Word, lo |-> v % Word]

\* Track numbers, FX numbers, sends: the native integers the model draws.
NativeInts == {-2, -1, 0, 1, 2}

track_fx_add_by_name(c, behavior) ==
    LowCall(c, "TrackFX_AddByName", <<c.in.track, "fx_name", FALSE, behavior>>)

track_fx_add_by_name_query(in) ==
    LET c == track_fx_add_by_name(Begin("track_fx_add_by_name_query", in), 0)
    IN  IF Aborted(c) THEN c
        ELSE IF in.ret = -1 THEN Return(c, OptNone)
        ELSE IF in.ret >= 0 THEN Return(c, OptSome(as_u32(in.ret)))
        ELSE Panic(c, <<"internal error: entered unreachable code">>)

track_fx_add_by_name_add_zero_fails(in) ==
    LET c == track_fx_add_by_name(Begin("track_fx_add_by_name_add", in), -1)
    IN  IF Aborted(c) THEN c
        ELSE IF in.ret <= 0 /\ in.ret >= -1 THEN Return(c, ResErr("FX couldn't be added"))
        ELSE IF in.ret >= 0 THEN Return(c, ResOk(as_u32(in.ret)))
        ELSE Panic(c, <<"internal error: entered unreachable code">>)

track_fx_add_by_name_add(in) ==
    LET c == track_fx_add_by_name(Begin("track_fx_add_by_name_add", in), -1)
    IN  IF Aborted(c) THEN c
        ELSE IF in.ret = -1 THEN Return(c, ResErr("FX couldn't be added"))
        ELSE IF in.ret >= 0 THEN Return(c, ResOk(as_u32(in.ret)))
        ELSE Panic(c, <<"internal error: entered unreachable code">>)

create_track_send(in) ==
    LET c == LowCall(Begin("create_track_send", in), "CreateTrackSend", <<in.track, null_mut>>)
    IN  IF Aborted(c) THEN c
        ELSE IF in.ret < 0 THEN Return(c, ResErr("couldn't create track send"))
        ELSE Return(c, ResOk(as_u32(in.ret)))

\* ---- output parameters -------------------------------------------------
\* MaybeUninit::assume_init of the slot `slot`: the value the native
\* function wrote, or whatever the memory held if it wrote nothing.
assume_init(in, slot) == IF slot \in in.wrote THEN in.slots[slot] ELSE in.garbage

Read(c, read_slots) == IF Aborted(c) THEN c ELSE [c EXCEPT !.reads = @ \cup read_slots]

track_fx_get_preset_index(in) ==
    LET c == LowCall(Begin("track_fx_get_preset_index", in), "TrackFX_GetPresetIndex",
                     <<in.track, in.index, "num_presets">>)
    IN  IF Aborted(c) THEN c
        ELSE IF in.ret = -1
             THEN Return(c, ResErr("couldn't get FX preset index (maybe FX doesn't exist)"))
        ELSE Return(Read(c, {"num_presets"}),
                    ResOk([index |-> as_u32(in.ret),
                           count |-> as_u32(assume_init(in, "num_presets"))]))

\* Subtraction of u32 values: an underflow panics in a build with overflow
\* checks and wraps in a build without.
Underflows(a, b) == a.hi = 0 /\ a.lo < b

sub_u32(a, b) ==
    [hi |-> (a.hi - (IF a.lo < b THEN 1 ELSE 0)) % Word, lo |-> (a.lo - b) % Word]

\* TrackFxLocation::try_from_raw: no location has a negative raw value.
TrackFxLocation_try_from_raw(v) == IF v < 0 THEN OptNone ELSE OptSome(v)

convert_tracknumber_to_track_ref(tracknumber) ==
    IF tracknumber = as_u32(0) THEN <<"MasterTrack">>
    ELSE <<"NormalTrack", sub_u32(tracknumber, 1)>>

\* (v >> 16) & 0xFFFF and v & 0xFFFF of a u32, as u32 values.
shr16(v) == as_u32(v.hi)
low16(v) == as_u32(v.lo)

get_focused_fx(in) ==
    LET c == Read(LowCall(Begin("get_focused_fx", in), "GetFocusedFX",
                          <<"tracknumber", "itemnumber", "fxnumber">>),
                  {"tracknumber", "fxnumber"})
        tracknumber == as_u32(assume_init(in, "tracknumber"))
        fxnumber == assume_init(in, "fxnumber")
    IN  IF Aborted(c) THEN c
        ELSE IF in.ret = 0 THEN Return(c, OptNone)
        ELSE IF in.ret = 1
             THEN IF TrackFxLocation_try_from_raw(fxnumber) = OptNone
                  THEN Panic(c, <<"unknown track FX location">>)
                  ELSE Return(c, OptSome([kind |-> "TrackFx",
                                          track_ref |-> convert_tracknumber_to_track_ref(tracknumber),
                                          fx_location |-> fxnumber]))
        ELSE IF in.ret = 2
             THEN IF Underflows(tracknumber, 1) /\ in.overflow_checks
                  THEN Panic(c, <<"attempt to subtract with overflow">>)
                  ELSE Return(Read(c, {"itemnumber"}),
                              OptSome([kind |-> "TakeFx",
                                       track_index |-> sub_u32(tracknumber, 1),
                                       item_index |-> as_u32(assume_init(in, "itemnumber")),
                                       take_index |-> shr16(as_u32(fxnumber)),
                                       fx_index |-> low16(as_u32(fxnumber))]))
        ELSE Panic(c, <<"Unknown GetFocusedFX result value">>)

get_last_touched_fx(in) ==
    LET c == LowCall(Begin("get_last_touched_fx", in), "GetLastTouchedFX",
                     <<"tracknumber", "fxnumber", "paramnumber">>)
        tracknumber == as_u32(assume_init(in, "tracknumber"))
        tracknumber_high_word == shr16(tracknumber)
        fxnumber == assume_init(in, "fxnumber")
        paramnumber == as_u32(assume_init(in, "paramnumber"))
        r == Read(c, {"tracknumber", "fxnumber", "paramnumber"})
    IN  IF Aborted(c) THEN c
        ELSE IF ~in.ret THEN Return(c, OptNone)
        ELSE IF tracknumber_high_word = as_u32(0)
             THEN IF TrackFxLocation_try_from_raw(fxnumber) = OptNone
                  THEN Panic(r, <<"unknown track FX location">>)
                  ELSE Return(r, OptSome([kind |-> "TrackFx",
                                          track_ref |-> convert_tracknumber_to_track_ref(tracknumber),
                                          fx_location |-> fxnumber,
                                          param_index |-> paramnumber]))
        ELSE IF (Underflows(low16(tracknumber), 1) \/ Underflows(tracknumber_high_word, 1))
                /\ in.overflow_checks
             THEN Panic(r, <<"attempt to subtract with overflow">>)
        ELSE Return(r, OptSome([kind |-> "TakeFx",
                                track_index |-> sub_u32(low16(tracknumber), 1),
                                item_index |-> sub_u32(tracknumber_high_word, 1),
                                take_index |-> shr16(as_u32(fxnumber)),
                                fx_index |-> low16(as_u32(fxnumber)),
                                param_index |-> paramnumber]))

VolPan(c, name, args, err) ==
    LET c1 == LowCall(c, name, args \o <<"volume", "pan">>)
    IN  IF Aborted(c1) THEN c1
        ELSE IF ~c.in.ret THEN Return(c1, ResErr(err))
        ELSE Return(Read(c1, {"volume", "pan"}),
                    ResOk([volume |-> assume_init(c.in, "volume"),
                           pan |-> assume_init(c.in, "pan")]))

get_track_ui_vol_pan(in) ==
    VolPan(Begin("get_track_ui_vol_pan", in), "GetTrackUIVolPan", <<in.track>>,
           "couldn't get track volume and pan")

get_track_send_ui_vol_pan(in) ==
    VolPan(Begin("get_track_send_ui_vol_pan", in), "GetTrackSendUIVolPan",
           <<in.track, in.index>>,
           "couldn't get track send volume and pan (probably send doesn't exist)")

make_some_if_greater_than_zero(value) == IF value <= 0 THEN OptNone ELSE OptSome(value)

track_fx_get_parameter_step_sizes(in) ==
    LET c == LowCall(Begin("track_fx_get_parameter_step_sizes", in),
                     "TrackFX_GetParameterStepSizes",
                     <<in.track, in.index, 0, "step", "small_step", "large_step", "is_toggle">>)
    IN  IF Aborted(c) THEN c
        ELSE IF ~in.ret THEN Return(c, OptNone)
        ELSE IF assume_init(in, "is_toggle") # 0
             THEN Return(Read(c, {"is_toggle"}), OptSome([kind |-> "Toggle"]))
        ELSE Return(Read(c, {"is_toggle", "step", "small_step", "large_step"}),
                    OptSome([kind |-> "Normal",
                             normal_step |-> assume_init(in, "step"),
                             small_step |->
                                 make_some_if_greater_than_zero(assume_init(in, "small_step")),
                             large_step |->
                                 make_some_if_greater_than_zero(assume_init(in, "large_step"))]))

track_fx_get_param_ex(in) ==
    LET c == LowCall(Begin("track_fx_get_param_ex", in), "TrackFX_GetParamEx",
                     <<in.track, in.index, 0, "min_val", "max_val", "mid_val">>)
    IN  Return(Read(c, {"min_val", "max_val", "mid_val"}),
               [current_value |-> in.ret,
                min_value |-> assume_init(in, "min_val"),
                mid_value |-> assume_init(in, "mid_val"),
                max_value |-> assume_init(in, "max_val")])

\* A GUID is modelled by one number; ZERO_GUID is the all-zero GUID.
ZERO_GUID == 0

string_to_guid(in) ==
    LET c == Read(LowCall(Begin("string_to_guid", in), "stringToGuid",
                          <<"guid_string", "guid">>),
                  {"guid"})
        guid == assume_init(in, "guid")
    IN  IF Aborted(c) THEN c
        ELSE IF guid = ZERO_GUID THEN Return(c, ResErr("GUID string is invalid"))
        ELSE Return(c, ResOk(guid))

gen_guid(in) ==
    LET c == Read(LowCall(Begin("gen_guid", in), "genGuid", <<"guid">>), {"guid"})
    IN  Return(c, assume_init(in, "guid"))

\* ---- closures ----------------------------------------------------------
\* The caller's closure runs on `arg`: the invocation is recorded with the
\* number of native calls made before it, and its result is in.closure_ret.
Invoke(c, arg) ==
    IF Aborted(c) THEN c
    ELSE [c EXCEPT !.closure = Append(@, [arg |-> arg, after |-> Len(c.native)])]

\* Option::map with the caller's closure.
Option_map_identity(c, opt) == Return(c, opt)

Option_map(c, opt) ==
    IF opt = OptNone THEN Return(c, OptNone)
    ELSE Return(Invoke(c, opt[2]), OptSome(c.in.closure_ret))

\* create_passing_c_str
create_passing_c_str(ptr) == IF ptr = null_mut THEN OptNone ELSE OptSome(ptr)

section_from_unique_id_as(op, in) ==
    LET c == LowCall(Begin(op, in), "SectionFromUniqueID", <<in.index>>)
    IN  IF Aborted(c) THEN c
        ELSE IF in.ret = null_mut THEN Return(c, OptNone)
        ELSE Option_map(c, NonNull_new(in.ret))

section_from_unique_id(in) == section_from_unique_id_as("section_from_unique_id", in)

\* Section::with_raw (high/src/section.rs)
with_raw(in) == section_from_unique_id_as("with_raw", in)

get_midi_input(in) ==
    LET c == LowCall(Begin("get_midi_input", in), "GetMidiInput", <<in.index>>)
    IN  IF Aborted(c) THEN c
        ELSE IF in.ret = null_mut THEN Return(c, OptNone)
        ELSE Option_map(c, NonNull_new(in.ret))

undo_can_undo_2_unchecked(c) ==
    Option_map(LowCall(c, "Undo_CanUndo2", <<to_raw(c.in.project)>>),
               create_passing_c_str(c.in.ret))

undo_can_undo_2(in) ==
    undo_can_undo_2_unchecked(require_valid_project(Begin("undo_can_undo_2", in)))

undo_can_redo_2_unchecked(c) ==
    Option_map(LowCall(c, "Undo_CanRedo2", <<to_raw(c.in.project)>>),
               create_passing_c_str(c.in.ret))

undo_can_redo_2(in) ==
    undo_can_redo_2_unchecked(require_valid_project(Begin("undo_can_redo_2", in)))

reverse_named_command_lookup(in) ==
    Option_map(LowCall(Begin("reverse_named_command_lookup", in),
                       "ReverseNamedCommandLookup", <<in.index>>),
               create_passing_c_str(in.ret))

\* ---- the calls a plug-in makes -----------------------------------------
ProjectOps ==
    {"get_track", "count_tracks", "main_on_command_ex", "undo_begin_block_2",
     "get_master_track", "set_current_bpm", "get_selected_track_2", "undo_can_undo_2",
     "undo_can_redo_2"}
NullablePointerOps ==
    {"get_track", "get_selected_track_2", "get_current_project_in_load_save",
     "get_track_envelope_by_name", "track_fx_get_floating_window"}
ZeroBufferOps ==
    {"enum_projects", "get_midi_input_name", "get_midi_output_name", "track_fx_get_preset"}
\* The accessors that assert!(buffer_size > 0).
AssertingBufferOps ==
    {"track_fx_get_fx_name", "track_fx_get_param_name", "track_fx_get_formatted_param_value",
     "track_fx_format_param_value_normalized", "get_track_state_chunk"}
BufferOps ==
    ZeroBufferOps \cup AssertingBufferOps
        \cup {"medium_level::get_track_state_chunk", "with_string_buffer"}
SentinelOps == {"track_fx_add_by_name_add", "track_fx_get_preset_index", "create_track_send"}
OutputOps ==
    {"get_focused_fx", "get_last_touched_fx", "get_track_ui_vol_pan",
     "get_track_send_ui_vol_pan", "track_fx_get_parameter_step_sizes",
     "track_fx_get_preset_index", "track_fx_get_param_ex", "string_to_guid", "gen_guid"}
ClosureOps ==
    {"section_from_unique_id", "with_raw", "get_midi_input", "undo_can_undo_2",
     "undo_can_redo_2", "reverse_named_command_lookup"}
TypedOps ==
    ProjectOps \cup NullablePointerOps \cup BufferOps \cup SentinelOps \cup OutputOps
        \cup ClosureOps \cup {"track_fx_add_by_name_query", "kbd_on_main_action_ex"}

\* The output slots of an operation.
SlotsOf(op) ==
    CASE op = "get_focused_fx" -> {"tracknumber", "itemnumber", "fxnumber"}
      [] op = "get_last_touched_fx" -> {"tracknumber", "fxnumber", "paramnumber"}
      [] op \in {"get_track_ui_vol_pan", "get_track_send_ui_vol_pan"} -> {"volume", "pan"}
      [] op = "track_fx_get_parameter_step_sizes" ->
             {"step", "small_step", "large_step", "is_toggle"}
      [] op = "track_fx_get_preset_index" -> {"num_presets"}
      [] op = "track_fx_get_param_ex" -> {"min_val", "max_val", "mid_val"}
      [] op \in {"string_to_guid", "gen_guid"} -> {"guid"}
      [] OTHER -> {}

\* What the native function of an operation may return.
NativeRets(op) ==
    CASE op \in NullablePointerOps \cup ClosureOps
             \cup {"enum_projects", "get_master_track"} -> RawPointers
      [] op \in {"get_midi_input_name", "get_midi_output_name", "track_fx_get_preset",
                 "track_fx_get_fx_name", "track_fx_get_param_name",
                 "track_fx_get_formatted_param_value",
                 "track_fx_format_param_value_normalized", "get_track_state_chunk",
                 "medium_level::get_track_state_chunk",
                 "get_last_touched_fx", "get_track_ui_vol_pan",
                 "get_track_send_ui_vol_pan", "track_fx_get_parameter_step_sizes"} -> BOOLEAN
      [] op = "get_focused_fx" -> {0, 1, 2, 3}
      [] op \in SentinelOps \cup {"track_fx_add_by_name_query", "count_tracks"} -> NativeInts
      [] OTHER -> {0}

\* Whether the native function reports success with the return value ret;
\* a function that reports nothing always succeeds.
Succeeded(op, ret) ==
    CASE op = "get_focused_fx" -> ret # 0
      [] op \in {"get_last_touched_fx", "get_track_ui_vol_pan", "get_track_send_ui_vol_pan",
                 "track_fx_get_parameter_step_sizes"} -> ret
      [] op = "track_fx_get_preset_index" -> ret # -1
      [] OTHER -> TRUE

SlotVals(op) ==
    IF op \in {"get_focused_fx", "get_last_touched_fx"} THEN {-1, 0, 1, 65536} ELSE {0, 1}

UnloadedSets(op) ==
    IF op \in ProjectOps
    THEN {{}, {"ValidatePtr2"}, NativeNames \ {"ValidatePtr2"}}
    ELSE {{}, NativeNames}

Strings == SeqsUpTo(StrBytes, MaxBufferSize - 1)

\* What a native function may write at the start of the buffer when it does
\* not terminate its output: any bytes, NUL among them or not.
RawFills == SeqsUpTo({NUL} \cup StrBytes, MaxBufferSize)

\* What the caller's closure may return: values that are no pointer.
ClosureResults == {11, 12}

\* The inputs of one call: the caller's arguments, the build profile, which
\* entry points the host resolved and how the native side answers.
Inputs(op) ==
    { [project |-> project, index |-> 0, track |-> 1, buffer_size |-> buffer_size,
       overflow_checks |-> overflow_checks, unloaded |-> unloaded, valid |-> valid,
       ret |-> ret, wrote |-> wrote, slots |-> slots, garbage |-> garbage,
       fills |-> fills, str |-> str, raw |-> raw, closure_ret |-> closure_ret,
       value_change |-> value_change] :
        project \in (IF op \in ProjectOps THEN ProjectContexts ELSE {CurrentProject}),
        buffer_size \in (IF op \in BufferOps THEN 0..MaxBufferSize ELSE {0}),
        overflow_checks \in (IF op \in {"get_focused_fx", "get_last_touched_fx"}
                             THEN BOOLEAN ELSE {TRUE}),
        unloaded \in UnloadedSets(op),
        valid \in (IF op \in ProjectOps THEN BOOLEAN ELSE {TRUE}),
        ret \in NativeRets(op),
        wrote \in {{}, SlotsOf(op)},
        slots \in [SlotsOf(op) -> SlotVals(op)],
        garbage \in (IF SlotsOf(op) = {} THEN {0} ELSE {0, 1}),
        fills \in (IF op = "with_string_buffer" THEN {FALSE}
                   ELSE IF op \in BufferOps THEN BOOLEAN ELSE {TRUE}),
        str \in (IF op \in BufferOps \ {"with_string_buffer"} THEN Strings ELSE {<<>>}),
        raw \in (IF op = "with_string_buffer" THEN RawFills ELSE {<<>>}),
        closure_ret \in (IF op \in ClosureOps THEN ClosureResults ELSE {11}),
        value_change \in (IF op = "kbd_on_main_action_ex" THEN ActionValueChanges
                          ELSE {ActionValueChange("AbsoluteLowRes", 0)}) }

\* The native side keeps its contract: when it reports success it has
\* written every output slot, and it writes within the buffer it was given.
NativeContract(op, in) ==
    /\ Succeeded(op, in.ret) => in.wrote = SlotsOf(op)
    /\ Len(in.raw) <= in.buffer_size

Run(op, in) ==
    CASE op = "get_track" -> get_track(in)
      [] op = "count_tracks" -> count_tracks(in)
      [] op = "main_on_command_ex" -> main_on_command_ex(in)
      [] op = "undo_begin_block_2" -> undo_begin_block_2(in)
      [] op = "get_master_track" -> get_master_track(in)
      [] op = "set_current_bpm" -> set_current_bpm(in)
      [] op = "get_selected_track_2" -> get_selected_track_2(in)
      [] op = "get_current_project_in_load_save" -> get_current_project_in_load_save(in)
      [] op = "get_track_envelope_by_name" -> get_track_envelope_by_name(in)
      [] op = "track_fx_get_floating_window" -> track_fx_get_floating_window(in)
      [] op = "enum_projects" -> enum_projects(in)
      [] op = "get_midi_input_name" -> get_midi_input_name(in)
      [] op = "get_midi_output_name" -> get_midi_output_name(in)
      [] op = "track_fx_get_preset" -> track_fx_get_preset(in)
      [] op = "track_fx_get_fx_name" -> track_fx_get_fx_name(in)
      [] op = "track_fx_get_param_name" -> track_fx_get_param_name(in)
      [] op = "track_fx_get_formatted_param_value" -> track_fx_get_formatted_param_value(in)
      [] op = "track_fx_format_param_value_normalized" ->
             track_fx_format_param_value_normalized(in)
      [] op = "get_track_state_chunk" -> get_track_state_chunk(in)
      [] op = "medium_level::get_track_state_chunk" -> medium_level_get_track_state_chunk(in)
      [] op = "with_string_buffer" -> with_string_buffer_call(in)
      [] op = "kbd_on_main_action_ex" -> kbd_on_main_action_ex(in)
      [] op = "track_fx_add_by_name_query" -> track_fx_add_by_name_query(in)
      [] op = "track_fx_add_by_name_add" -> track_fx_add_by_name_add(in)
      [] op = "track_fx_get_preset_index" -> track_fx_get_preset_index(in)
      [] op = "create_track_send" -> create_track_send(in)
      [] op = "get_focused_fx" -> get_focused_fx(in)
      [] op = "get_last_touched_fx" -> get_last_touched_fx(in)
      [] op = "get_track_ui_vol_pan" -> get_track_ui_vol_pan(in)
      [] op = "get_track_send_ui_vol_pan" -> get_track_send_ui_vol_pan(in)
      [] op = "track_fx_get_parameter_step_sizes" -> track_fx_get_parameter_step_sizes(in)
      [] op = "track_fx_get_param_ex" -> track_fx_get_param_ex(in)
      [] op = "string_to_guid" -> string_to_guid(in)
      [] op = "gen_guid" -> gen_guid(in)
      [] op = "section_from_unique_id" -> section_from_unique_id(in)
      [] op = "with_raw" -> with_raw(in)
      [] op = "get_midi_input" -> get_midi_input(in)
      [] op = "undo_can_undo_2" -> undo_can_undo_2(in)
      [] op = "undo_can_redo_2" -> undo_can_redo_2(in)
      [] op = "reverse_named_command_lookup" -> reverse_named_command_lookup(in)

\* A call about to be made.
PendingCall(op, in) == [NoTypedCall EXCEPT !.op = op, !.in = in, !.outcome = "pending"]

PendingCalls ==
    UNION { {PendingCall(op, in) : in \in {i \in Inputs(op) : NativeContract(op, i)}} :
            op \in TypedOps }

\* One call of a medium-level operation.
CallTyped ==
    /\ med.outcome = "pending"
    /\ med' = Run(med.op, med.in)
    /\ UNCHANGED <<genVars, rtVars, scopeVars, swellVars, extVars>>

MedIdle == med = NoTypedCall

(***************************************************************************)
(* The integration test runner (test/test/src/lib.rs). The runner works    *)
(* through a list of test steps, one step per main-thread task: every      *)
(* task runs execute_next_step once and hands the rest of the list to the  *)
(* next task.                                                              *)
(***************************************************************************)
MaxSteps == 3  \* test steps returned by create_test_steps

\* REAPER versions, by rank.
Versions == {1, 2, 3}

AllVersions == [kind |-> "AllVersions", v |-> 0]
VersionMin(v) == [kind |-> "Min", v |-> v]
VersionMax(v) == [kind |-> "Max", v |-> v]

VersionRestrictions == {AllVersions, VersionMin(2), VersionMax(2)}

\* A TestStep: its name is its position in the list.
TestStep(name, restriction) == [name |-> name, version_restriction |-> restriction]

\* The lists create_test_steps may return.
StepLists ==
    { [i \in DOMAIN rs |-> TestStep(i, rs[i])] : rs \in SeqsUpTo(VersionRestrictions, MaxSteps) }

\* What (step.operation)(reaper, context) does: returns Ok(()), returns
\* Err(msg), or panics.
OpOk == [kind |-> "Ok", msg |-> <<>>]
OpErr == [kind |-> "Err", msg |-> <<"assertion failed">>]
OpPanic == [kind |-> "panic", msg |-> <<>>]
OperationOutcomes == {OpOk, OpErr, OpPanic}

\* The argument of on_finish.
FinishOk == [kind |-> "Ok", msg |-> <<>>]
FinishErr(msg) == [kind |-> "Err", msg |-> msg]

NoTestRun ==
    [pc |-> "idle", version |-> 1, test_steps |-> <<>>, step_count |-> 0,
     tasks |-> <<>>, tasks_run |-> 0, console |-> <<>>, operations |-> <<>>,
     completed |-> <<>>, finish_calls |-> <<>>, panic_msg |-> <<>>]

\* Every step matches.
reaper_version_matches_always(version, step) == TRUE

reaper_version_matches(version, step) ==
    CASE step.version_restriction.kind = "AllVersions" -> TRUE
      [] step.version_restriction.kind = "Min" -> version >= step.version_restriction.v
      [] step.version_restriction.kind = "Max" -> version <= step.version_restriction.v

\* The last step is taken instead of the first.
pop_back(steps) ==
    IF steps = <<>>
    THEN [some |-> FALSE, step |-> TestStep(0, AllVersions), rest |-> <<>>]
    ELSE [some |-> TRUE, step |-> steps[Len(steps)], rest |-> SubSeq(steps, 1, Len(steps) - 1)]

\* steps.pop_front()
pop_front(steps) ==
    IF steps = <<>>
    THEN [some |-> FALSE, step |-> TestStep(0, AllVersions), rest |-> <<>>]
    ELSE [some |-> TRUE, step |-> Head(steps), rest |-> Tail(steps)]

\* The panic of the operation unwinds through the runner.
catch_unwind_resume(outcome, step_name) ==
    [kind |-> outcome.kind, msg |-> outcome.msg]

\* std::panic::catch_unwind(..).unwrap_or_else(|_| Err(format!("Test [{}]
\* panicked", step_name).into()))
catch_unwind(outcome, step_name) ==
    IF outcome.kind = "panic"
    THEN [kind |-> "Err", msg |-> <<"Test [", step_name, "] panicked">>]
    ELSE [kind |-> outcome.kind, msg |-> outcome.msg]

log(t, msg) == [t EXCEPT !.console = Append(@, msg)]

log_step(t, step_index, name) == log(t, <<"step", step_index + 1, name>>)

log_skip(t, msg) == log(t, <<"SKIPPED", msg>>)

log_failure(t, msg) == log(t, <<"FAILED", msg>>)

on_finish(t, result) == [t EXCEPT !.finish_calls = Append(@, result)]

\* The task is dropped instead of queued.
execute_later_in_main_thread_asap_dropped(t, steps, accepted) ==
    IF accepted
    THEN t
    ELSE [t EXCEPT !.pc = "panicked",
                   !.panic_msg = <<"couldn't schedule next test step">>]

\* reaper.execute_later_in_main_thread_asap(move || execute_next_step(..,
\* steps, ..)).expect("couldn't schedule next test step"): the task owns the
\* rest of the list. Whether the main thread accepts the task is the
\* caller's input.
execute_later_in_main_thread_asap(t, steps, accepted) ==
    IF accepted
    THEN [t EXCEPT !.tasks = Append(@, steps)]
    ELSE [t EXCEPT !.pc = "panicked",
                   !.panic_msg = <<"couldn't schedule next test step">>]

\* One call of execute_next_step on the list steps; outcome is what the
\* step's operation does if it is run.
execute_next_step(t, steps, outcome, accepted) ==
    LET popped == pop_front(steps)
        step == popped.step
        logged == log_step(t, t.step_count - Len(popped.rest) - 1, step.name)
        result == catch_unwind(outcome, step.name)
        ran == [logged EXCEPT
                   !.operations = Append(@, [step |-> step.name, outcome |-> outcome]),
                   !.completed = Append(@, step.name)]
        reason == IF step.version_restriction.kind = "Min"
                  THEN "REAPER version too low"
                  ELSE "REAPER version too high"
    IN  IF ~popped.some
        THEN on_finish(log(t, <<"**Integration test was successful**">>), FinishOk)
        ELSE IF reaper_version_matches(t.version, step)
        THEN CASE result.kind = "Ok" ->
                      execute_later_in_main_thread_asap(ran, popped.rest, accepted)
               [] result.kind = "Err" ->
                      on_finish(log_failure(ran, result.msg), FinishErr(result.msg))
               [] result.kind = "panic" ->
                      [logged EXCEPT
                          !.operations = Append(@, [step |-> step.name, outcome |-> outcome]),
                          !.pc = "panicked",
                          !.panic_msg = <<"step operation panicked">>]
        ELSE execute_later_in_main_thread_asap(log_skip(logged, reason), popped.rest,
                                               accepted)

\* execute_integration_test(on_finish): clears the console, logs the
\* heading and runs the first execute_next_step itself.
execute_integration_test ==
    /\ itest.pc = "idle"
    /\ \E outcome \in OperationOutcomes, accepted \in BOOLEAN :
         itest' = execute_next_step(
                      [itest EXCEPT !.pc = "running",
                                    !.console = <<<<"# Testing reaper-rs">>>>,
                                    !.step_count = Len(itest.test_steps)],
                      itest.test_steps, outcome, accepted)
    /\ UNCHANGED <<genVars, rtVars, scopeVars, medVars, swellVars, ctxVars, raceVars>>

\* The main thread runs the oldest task handed to it: one call of
\* execute_next_step.
run_main_thread_task ==
    /\ itest.pc = "running"
    /\ itest.tasks # <<>>
    /\ \E outcome \in OperationOutcomes, accepted \in BOOLEAN :
         itest' = execute_next_step(
                      [itest EXCEPT !.tasks = Tail(@), !.tasks_run = @ + 1],
                      Head(itest.tasks), outcome, accepted)
    /\ UNCHANGED <<genVars, rtVars, scopeVars, medVars, swellVars, ctxVars, raceVars>>

TestIdle == itest = NoTestRun

(***************************************************************************)
(* The global Swell slot under threads (low/src/swell_impl.rs). Here a     *)
(* call of make_available_globally or get is not one step: the Once is     *)
(* entered, the closure stores the instance word by word, and a get reads  *)
(* the static mut slot with no synchronisation at any point in between.    *)
(***************************************************************************)
MaxMakers == 2    \* threads calling make_available_globally
MaxRaceGets == 2  \* calls of get

Makers == 1..MaxMakers

\* A maker thread that has not called yet.
IdleMaker == [pc |-> "idle", functions |-> NoSwell]

\* static mut INSTANCE: None, being written, or Some(value).
SlotNone == [state |-> "none", value |-> NoSwell]
SlotPartial(functions) == [state |-> "partial", value |-> functions]
SlotSome(functions) == [state |-> "some", value |-> functions]

NoRace ==
    [slot |-> SlotNone, once |-> "new", makers |-> [t \in Makers |-> IdleMaker],
     closure_runs |-> <<>>, gets |-> <<>>]

\* Thread t calls make_available_globally(functions) and enters
\* INIT_INSTANCE.call_once: the first thread in runs the closure, a thread
\* that finds the closure running waits for it, a later one returns at
\* once.
call_once_enter(t, functions) ==
    /\ race.makers[t].pc = "idle"
    /\ race' = [race EXCEPT
                   !.makers[t] = [pc |-> CASE race.once = "new" -> "closure"
                                           [] race.once = "running" -> "waiting"
                                           [] race.once = "done" -> "returned",
                                  functions |-> functions],
                   !.once = IF @ = "new" THEN "running" ELSE @]
    /\ UNCHANGED <<genVars, rtVars, scopeVars, medVars, swellVars, ctxVars, testVars>>

\* The closure starts INSTANCE = Some(functions): the first words of the
\* value are in the slot.
closure_store_begin(t) ==
    /\ race.makers[t].pc = "closure"
    /\ race' = [race EXCEPT
                   !.makers[t].pc = "storing",
                   !.slot = SlotPartial(race.makers[t].functions),
                   !.closure_runs = Append(@, race.makers[t].functions)]
    /\ UNCHANGED <<genVars, rtVars, scopeVars, medVars, swellVars, ctxVars, testVars>>

\* The closure has stored the whole value; the Once is complete.
closure_store_end(t) ==
    /\ race.makers[t].pc = "storing"
    /\ race' = [race EXCEPT
                   !.makers[t].pc = "returned",
                   !.slot = SlotSome(race.makers[t].functions),
                   !.once = "done"]
    /\ UNCHANGED <<genVars, rtVars, scopeVars, medVars, swellVars, ctxVars, testVars>>

\* A thread that waited in call_once returns once the closure is done.
call_once_return(t) ==
    /\ race.makers[t].pc = "waiting"
    /\ race.once = "done"
    /\ race' = [race EXCEPT !.makers[t].pc = "returned"]
    /\ UNCHANGED <<genVars, rtVars, scopeVars, medVars, swellVars, ctxVars, testVars>>

\* What INSTANCE.as_ref().expect(..) can see in the slot. The read is not
\* ordered with the store of the closure: while the store is under way the
\* reader can find None, the complete value, or Some over a value that is
\* only partly stored.
unsynchronized_read_atomic(slot) ==
    IF slot.state = "some"
    THEN {[outcome |-> "ok", value |-> slot.value, complete |-> TRUE]}
    ELSE {[outcome |-> "panic", value |-> NoSwell, complete |-> TRUE]}

unsynchronized_read(slot) ==
    CASE slot.state = "none" -> {[outcome |-> "panic", value |-> NoSwell, complete |-> TRUE]}
      [] slot.state = "some" -> {[outcome |-> "ok", value |-> slot.value, complete |-> TRUE]}
      [] slot.state = "partial" ->
             {[outcome |-> "panic", value |-> NoSwell, complete |-> TRUE],
              [outcome |-> "ok", value |-> slot.value, complete |-> TRUE],
              [outcome |-> "ok", value |-> slot.value, complete |-> FALSE]}

\* Swell::get on some thread.
racing_get ==
    /\ Len(race.gets) < MaxRaceGets
    /\ \E seen \in unsynchronized_read(race.slot) :
         race' = [race EXCEPT !.gets = Append(@, [outcome |-> seen.outcome,
                                                  value |-> seen.value,
                                                  complete |-> seen.complete,
                                                  slot |-> race.slot.state])]
    /\ UNCHANGED <<genVars, rtVars, scopeVars, medVars, swellVars, ctxVars, testVars>>

RaceIdle == race = NoRace

CtxIdle == last_ctx = NoCtx

ExtIdle == CtxIdle /\ TestIdle /\ RaceIdle

LaterIdle == MedIdle /\ SwellIdle /\ ExtIdle

(***************************************************************************)
(* The specifications.                                                     *)
(***************************************************************************)
GenIdle ==
    /\ tree = File(<<>>)
    /\ gen_pc = "idle"
    /\ files = [f \in FileNames |-> NoFile]
    /\ parsed = [m \in ModuleNames |-> Pending]
    /\ gen_panic = ""

RtIdle ==
    /\ resolver = [n \in HostNames |-> NullPtr]
    /\ instances = <<>>
    /\ get_func_log = <<>>
    /\ loads = 0
    /\ load_panics = 0
    /\ last_call = NoCall
    /\ calls = 0
    /\ last_read = [inst |-> 0, pointers |-> DefaultReaper.pointers]

ScopeIdle ==
    /\ handles = <<>>
    /\ last_op = NoOp

\* The generator starts on some bindings.rs with nothing generated.
GenInit ==
    /\ tree \in Trees
    /\ gen_pc = "start"
    /\ files = [f \in FileNames |-> NoFile]
    /\ parsed = [m \in ModuleNames |-> Pending]
    /\ gen_panic = ""
    /\ RtIdle
    /\ ScopeIdle
    /\ LaterIdle

GenNext == generate_reaper \/ generate_swell

SpecGen == GenInit /\ [][GenNext]_vars

\* The session starts in some host, before load.
Init ==
    /\ resolver \in Resolvers
    /\ instances = <<>>
    /\ get_func_log = <<>>
    /\ loads = 0
    /\ load_panics = 0
    /\ last_call = NoCall
    /\ calls = 0
    /\ last_read = [inst |-> 0, pointers |-> DefaultReaper.pointers]
    /\ GenIdle
    /\ ScopeIdle
    /\ LaterIdle

Next ==
    \/ Load
    \/ Default
    \/ \E i \in DOMAIN instances : Clone(i)
    \/ \E i \in DOMAIN instances : Pointers(i)
    \/ \E i \in DOMAIN instances, m \in DOMAIN Generated.methods : CallAccessor(i, m)
    \/ \E i \in DOMAIN instances : plugin_context(i)

Spec == Init /\ [][Next]_vars

ScopeInit ==
    /\ handles = <<>>
    /\ last_op = NoOp
    /\ GenIdle
    /\ RtIdle
    /\ LaterIdle

ScopeNext ==
    \/ \E scope \in ScopeTypes, low \in {"loaded", "default"} : NewHandle(scope, low)
    \/ DefaultHandle
    \/ \E h \in DOMAIN handles : CloneHandle(h)
    \/ \E h \in DOMAIN handles, op \in Methods : CallMethod(h, op)

SpecScope == ScopeInit /\ [][ScopeNext]_vars


(***************************************************************************)
(* Properties of the plug-in session (Spec).                               *)
(***************************************************************************)
\* The latest accessor call was made on an instance that load produced (or
\* a copy of one).
CalledOnLoaded == last_call.outcome # "none" /\ last_call.self.load > 0

\* C1: an accessor of an entry point the resolver answered with a non-null
\* address calls exactly that address once, with the caller's arguments in
\* the order of the declaration, and returns what the native call returned.
C1_AccessorForwards ==
    (CalledOnLoaded /\ ~GetFunc(last_call.name).null) =>
        /\ last_call.outcome = "returned"
        /\ Len(last_call.native) = 1
        /\ last_call.native[1].addr = GetFunc(last_call.name)
        /\ last_call.native[1].args = last_call.args
        /\ last_call.ret = last_call.native[1].result

\* GetTrack(proj, trackidx) was called with two different arguments and
\* returned the native 3.
C1_Witness ==
    /\ CalledOnLoaded
    /\ last_call.name = "GetTrack"
    /\ last_call.outcome = "returned"
    /\ last_call.args = <<1, 2>>
    /\ last_call.ret = 3

\* C2: an accessor of an entry point the resolver answered with null panics
\* with a message that contains the entry point's name, without calling
\* anything, on every call from the first on; load itself never panics.
C2_MissingPanicsOnUse ==
    /\ load_panics = 0
    /\ (CalledOnLoaded /\ GetFunc(last_call.name).null) =>
           /\ last_call.outcome = "panicked"
           /\ last_call.name \in Range(last_call.panic_msg)
           /\ last_call.native = <<>>

\* The first accessor call of the session, on a loaded instance, panicked.
C2_Witness ==
    /\ CalledOnLoaded
    /\ calls = 1
    /\ loads > 0
    /\ last_call.outcome = "panicked"
    /\ last_call.name = "DeleteTrack"

\* Instance i came out of load (or is a copy of one that did).
Loaded(i) == instances[i].load > 0

\* C3: load never fails, whatever the resolver answers, and in the table it
\* returns an entry is None exactly when the resolver answered null for its
\* name and otherwise holds the address the resolver answered.
C3_LoadNeverFails ==
    /\ load_panics = 0
    /\ loads > 0 => \E i \in DOMAIN instances : instances[i].load = loads
    /\ \A i \in DOMAIN instances : Loaded(i) =>
           \A n \in DeclaredNames :
               /\ (instances[i].pointers[n] = None) <=> GetFunc(n).null
               /\ ~GetFunc(n).null => instances[i].pointers[n] = Some(GetFunc(n))

\* load returned in a host that knows none of the declared names.
C3_Witness ==
    /\ \A n \in DeclaredNames : GetFunc(n).null
    /\ \E i \in DOMAIN instances :
           Loaded(i) /\ \A n \in DeclaredNames : instances[i].pointers[n] = None

\* C4: no step changes an instance that exists: after accessor calls
\* (returning or panicking), copies and reads, every entry of its table is
\* as load left it.
C4_TableFrozen ==
    [][\A i \in DOMAIN instances :
          i \in DOMAIN instances' /\ instances'[i] = instances[i]]_vars

\* Two accessor calls, the last one panicking, a copy and a read have
\* happened on loaded instances with a present and an absent entry.
C4_Witness ==
    /\ calls >= 2
    /\ Len(instances) >= 2
    /\ \A i \in DOMAIN instances : Loaded(i)
    /\ last_read.inst > 0
    /\ last_call.outcome = "panicked"
    /\ \E n \in DeclaredNames : instances[1].pointers[n] # None

\* The resolver invocations that load k made for name n.
LookupsOf(k, n) ==
    {i \in DOMAIN get_func_log : get_func_log[i].load = k /\ get_func_log[i].name = n}

\* C5: each load invokes the resolver exactly once for every declared name
\* and for no other name, and nothing but load invokes it.
C5_ResolverOncePerName ==
    /\ \A k \in 1..loads : \A n \in DeclaredNames : Cardinality(LookupsOf(k, n)) = 1
    /\ \A i \in DOMAIN get_func_log :
           get_func_log[i].name \in DeclaredNames /\ get_func_log[i].load \in 1..loads
    /\ Len(get_func_log) = loads * Cardinality(DeclaredNames)

\* A load has returned and accessors have been called since, in a host that
\* knows a name bindings.rs does not declare.
C5_Witness ==
    /\ loads = 1
    /\ calls >= 2
    /\ CalledOnLoaded
    /\ ~GetFunc("ShowConsoleMsg").null
    /\ Len(get_func_log) = Cardinality(DeclaredNames)

(***************************************************************************)
(* Properties of the usage scopes (SpecScope).                             *)
(***************************************************************************)
HandlesOf(scope) == {h \in DOMAIN handles : handles[h].scope = scope}

\* C6: a method bound to AudioThreadOnly (get_midi_input) is not callable
\* on a main-thread handle, a method bound to MainThreadOnly (enum_projects,
\* get_track, count_tracks) is not callable on a real-time handle, and each
\* of the two traits is implemented by exactly one type, its scope marker.
C6_ScopesPartitioned ==
    /\ \A h \in HandlesOf("MainThreadScope") : ~TypeChecks(handles[h].scope, "get_midi_input")
    /\ \A h \in HandlesOf("RealTimeAudioThreadScope") :
           \A op \in {"enum_projects", "get_track", "count_tracks"} :
               ~TypeChecks(handles[h].scope, op)
    /\ last_op.op # "" =>
           /\ MethodBound[last_op.op] = "AudioThreadOnly" =>
                  last_op.scope = "RealTimeAudioThreadScope"
           /\ MethodBound[last_op.op] = "MainThreadOnly" => last_op.scope = "MainThreadScope"
    /\ {ty \in ScopeTypes : Implements("MainThreadOnly", ty)} = {"MainThreadScope"}
    /\ {ty \in ScopeTypes : Implements("AudioThreadOnly", ty)} = {"RealTimeAudioThreadScope"}

\* Handles of both scopes exist and get_midi_input has been called.
C6_Witness ==
    /\ HandlesOf("MainThreadScope") # {}
    /\ HandlesOf("RealTimeAudioThreadScope") # {}
    /\ last_op.op = "get_midi_input"

FileOf(module_name) ==
    IF module_name = "reaper_functions" THEN "src/reaper.rs" ELSE "src/swell.rs"

NamesOf(fn_ptrs) == [i \in DOMAIN fn_ptrs |-> fn_ptrs[i].name]

ParamKinds(sig) == [j \in DOMAIN sig.inputs |-> sig.inputs[j].ty.kind]

\* All accessors generated so far, each with its declaration.
GeneratedAccessors ==
    UNION { { [method |-> files[FileOf(m)].methods[i], decl |-> parsed[m].fn_ptrs[i]] :
                i \in DOMAIN files[FileOf(m)].methods } : m \in ModuleNames }

\* C9: an accessor is unsafe exactly when some parameter of its declaration
\* is a raw pointer, so accessors with the same parameter types are marked
\* alike.
C9_UnsafeIffPointerParam ==
    /\ \A a \in GeneratedAccessors :
           a.method.unsafety <=> "Ptr" \in Range(ParamKinds(a.decl.signature))
    /\ \A a, b \in GeneratedAccessors :
           ParamKinds(a.decl.signature) = ParamKinds(b.decl.signature) =>
               a.method.unsafety = b.method.unsafety

\* An accessor whose only pointer is its second parameter is unsafe and one
\* without pointer parameters is not.
C9_Witness ==
    /\ \E a \in GeneratedAccessors :
           ParamKinds(a.decl.signature) = <<"Path", "Ptr">> /\ a.method.unsafety
    /\ \E a \in GeneratedAccessors :
           ParamKinds(a.decl.signature) = <<"Path", "Path">> /\ ~a.method.unsafety

\* The tree has no module root with content.
RootNamespaceMissing(t) ==
    ~\E i \in DOMAIN t.items :
        t.items[i].kind = "Mod" /\ t.items[i].ident = "root" /\ t.items[i].content

RootItems(t) ==
    LET i == CHOOSE i \in DOMAIN t.items :
                 t.items[i].kind = "Mod" /\ t.items[i].ident = "root" /\ t.items[i].content
    IN  t.items[i].items

NamedModules(t, m) ==
    {i \in DOMAIN RootItems(t) :
        RootItems(t)[i].kind = "Mod" /\ RootItems(t)[i].ident = m /\ RootItems(t)[i].content}

\* root has no module m with content.
FnPtrNamespaceMissing(t, m) == ~RootNamespaceMissing(t) /\ NamedModules(t, m) = {}

\* The types of the statics that stand alone in an extern block of module m.
ExtractedStaticTypes(t, m) ==
    IF RootNamespaceMissing(t) \/ NamedModules(t, m) = {}
    THEN {}
    ELSE LET k == CHOOSE k \in NamedModules(t, m) : \A j \in NamedModules(t, m) : k <= j
             its == RootItems(t)[k].items
         IN  {its[i].foreign[1].ty : i \in {i \in DOMAIN its : IsSingleStatic(its[i])}}

OptionSegments(ty) == {ty.segments[k] : k \in {k \in DOMAIN ty.segments : ty.segments[k].ident = "Option"}}

\* ty is a path with a segment Option<F, ..> where F is a bare function type.
IsOptionOfBareFn(ty) ==
    /\ ty.kind = "Path"
    /\ \E seg \in OptionSegments(ty) :
           /\ seg.arguments = "AngleBracketed"
           /\ Len(seg.args) > 0
           /\ seg.args[1].kind = "Type"
           /\ seg.args[1].ty.kind = "BareFn"

\* ty is a path with a segment Option<>.
HasEmptyOptionArgs(ty) ==
    /\ ty.kind = "Path"
    /\ \E seg \in OptionSegments(ty) : seg.arguments = "AngleBracketed" /\ seg.args = <<>>

Offending(t, m) ==
    \/ RootNamespaceMissing(t)
    \/ FnPtrNamespaceMissing(t, m)
    \/ \E ty \in ExtractedStaticTypes(t, m) : ~IsOptionOfBareFn(ty) \/ HasEmptyOptionArgs(ty)

\* C10: when root or the requested module is missing, or an extracted
\* static is not an Option of a bare function type, or its Option has no
\* generic argument, the extraction of that module panics: the build is
\* aborted, no declaration is returned and the module's file is not written.
C10_ExtractionAborts ==
    \A m \in ModuleNames :
        (parsed[m].state # "pending" /\ Offending(tree, m)) =>
            /\ parsed[m].state = "panic"
            /\ parsed[m].fn_ptrs = <<>>
            /\ gen_pc = "aborted"
            /\ gen_panic # ""
            /\ ~files[FileOf(m)].written

\* The build was aborted because of an Option<> after a well-formed static.
C10_Witness ==
    /\ gen_pc = "aborted"
    /\ gen_panic = "Angle bracket must have arg"
    /\ parsed["reaper_functions"].state = "panic"
    /\ \E ty \in ExtractedStaticTypes(tree, "reaper_functions") : IsOptionOfBareFn(ty)


\* A plug-in calling medium-level operations.
TypedInit == med \in PendingCalls /\ SwellIdle /\ ExtIdle /\ GenIdle /\ RtIdle /\ ScopeIdle

TypedNext == CallTyped

SpecTyped == TypedInit /\ [][TypedNext]_vars

\* A process using the global Swell slot.
SwellInit == SwellIdle /\ MedIdle /\ ExtIdle /\ GenIdle /\ RtIdle /\ ScopeIdle

SwellNext ==
    \/ \E functions \in SwellInstances : make_available_globally(functions)
    \/ get

SpecSwell == SwellInit /\ [][SwellNext]_vars

\* Threads that make a Swell instance available and threads that get it.
RaceInit ==
    /\ RaceIdle
    /\ CtxIdle
    /\ TestIdle
    /\ MedIdle
    /\ SwellIdle
    /\ GenIdle
    /\ RtIdle
    /\ ScopeIdle

RaceNext ==
    \/ \E t \in Makers, functions \in SwellInstances : call_once_enter(t, functions)
    \/ \E t \in Makers : closure_store_begin(t)
    \/ \E t \in Makers : closure_store_end(t)
    \/ \E t \in Makers : call_once_return(t)
    \/ racing_get

SpecRace == RaceInit /\ [][RaceNext]_vars

\* A run of the integration test in some REAPER version on some list of
\* steps.
TestInit ==
    /\ \E version \in Versions, steps \in StepLists :
         itest = [NoTestRun EXCEPT !.version = version, !.test_steps = steps]
    /\ CtxIdle
    /\ RaceIdle
    /\ MedIdle
    /\ SwellIdle
    /\ GenIdle
    /\ RtIdle
    /\ ScopeIdle

TestNext == execute_integration_test \/ run_main_thread_task

SpecTest == TestInit /\ [][TestNext]_vars

\* The main thread keeps running the tasks handed to it.
SpecTestFair == SpecTest /\ WF_vars(run_main_thread_task)

(***************************************************************************)
(* C11: a generator run is all-or-nothing: a run that failed at an         *)
(* extraction step has written neither reaper.rs nor swell.rs, a run that  *)
(* succeeded has written both, and no finished run has written only some   *)
(* of them.                                                                *)
(***************************************************************************)
WrittenFiles == {f \in FileNames : files[f].written}

RunFinished == gen_pc \in {"aborted", "done"}

C11_AllOrNothing ==
    /\ gen_pc = "aborted" => WrittenFiles = {}
    /\ gen_pc = "done" => WrittenFiles = FileNames
    /\ RunFinished => WrittenFiles \in {{}, FileNames}


(***************************************************************************)
(* C19: make_available_globally takes effect once only: after the first    *)
(* call, made with instance x, no later call with any instance changes the *)
(* global slot, and Swell::get returns x after any sequence of calls.      *)
(***************************************************************************)
C19_FirstInstanceWins ==
    /\ swell_made # <<>> => swell_slot = swell_made[1]
    /\ (swell_get.outcome # "none" /\ swell_get.made_before > 0)
           => swell_get = [outcome |-> "ok", value |-> swell_made[1], panic_msg |-> "",
                           made_before |-> swell_get.made_before]

\* Swell::get answered after a later call was made with another instance.
C19_Witness ==
    /\ Len(swell_made) >= 2
    /\ swell_made[2] # swell_made[1]
    /\ swell_get.outcome = "ok"
    /\ swell_get.made_before >= 2
    /\ swell_get.value = swell_made[1]

(***************************************************************************)
(* C20: Swell::get panics, with a message telling to call                  *)
(* make_available_globally first, whenever it is called before the first   *)
(* make_available_globally call, and never panics once                     *)
(* make_available_globally has been called.                                *)
(***************************************************************************)
C20_GetPanicsBeforeInit ==
    swell_get.outcome # "none" =>
        /\ swell_get.made_before = 0 =>
               /\ swell_get.outcome = "panic"
               /\ swell_get.panic_msg = "call make_available_globally() before using get()"
        /\ swell_get.made_before > 0 => swell_get.outcome = "ok"

\* A get that panicked, in a process that has made an instance available since.
C20_Witness ==
    /\ swell_get.outcome = "panic"
    /\ swell_get.made_before = 0
    /\ swell_made # <<>>


(***************************************************************************)
(* Claims about the medium-level operations (SpecTyped).                   *)
(***************************************************************************)
CallDone == med.outcome \in {"ok", "panic"}

\* The native function the operation wraps was called (not only ValidatePtr2).
Forwarded == \E i \in DOMAIN med.native : med.native[i].name # "ValidatePtr2"

(***************************************************************************)
(* C12: a medium-level operation panics only when the entry point it uses  *)
(* was not loaded or when buffer size 0 is passed to an operation that     *)
(* forbids it; a null or sentinel return, a missing item, an invalid       *)
(* project or an unexpected native value yields an Option or Result and    *)
(* no panic.                                                               *)
(***************************************************************************)
PanicOfUnloaded ==
    /\ Len(med.panic_msg) = 2
    /\ med.panic_msg[1] = "Attempt to use a function that has not been loaded: "
    /\ med.panic_msg[2] \in med.in.unloaded

PanicOfForbiddenZeroBuffer ==
    /\ med.op \in BufferOps \ ZeroBufferOps
    /\ med.in.buffer_size = 0

C12_PanicsOnlyOnProgrammerError ==
    med.outcome = "panic" => PanicOfUnloaded \/ PanicOfForbiddenZeroBuffer

(***************************************************************************)
(* C13: enum_projects, get_midi_input_name, get_midi_output_name and       *)
(* track_fx_get_preset, called with buffer size 0, allocate no buffer,     *)
(* pass a null buffer and size 0 to the native function, and report a      *)
(* result that differs from the one they report when a buffer was          *)
(* requested and the native function wrote an empty string.                *)
(***************************************************************************)
WithEmptyStringIn(in, n) == [in EXCEPT !.buffer_size = n, !.fills = TRUE, !.str = <<>>]

C13_ZeroBufferDistinguishable ==
    (med.op \in ZeroBufferOps /\ med.outcome = "ok" /\ med.in.buffer_size = 0
        /\ med.value # OptNone) =>
        /\ med.alloc = <<>>
        /\ Len(med.native) = 1
        /\ LET args == med.native[1].args
           IN  args[Len(args) - 1] = null_mut /\ args[Len(args)] = 0
        /\ \A n \in 1..MaxBufferSize :
               Run(med.op, WithEmptyStringIn(med.in, n)).value # med.value

(***************************************************************************)
(* C14: track_fx_add_by_name_add, track_fx_get_preset_index and            *)
(* create_track_send return Err with a message when the native function    *)
(* returns -1 and Ok carrying the native value when it returns a value     *)
(* >= 0; a native 0 is Ok(0), never a failure.                             *)
(***************************************************************************)
CarriedValue ==
    IF med.op = "track_fx_get_preset_index" THEN med.value[2].index ELSE med.value[2]

C14_SentinelIsError ==
    (med.op \in SentinelOps /\ CallDone /\ med.native # <<>>) =>
        /\ med.in.ret = -1 =>
               /\ med.outcome = "ok"
               /\ med.value[1] = "Err"
               /\ med.value[2] # ""
        /\ med.in.ret >= 0 =>
               /\ med.outcome = "ok"
               /\ med.value[1] = "Ok"
               /\ CarriedValue.hi * Word + CarriedValue.lo = med.in.ret

\* The native function answered 0 and the caller got Ok(0).
C14_Witness ==
    /\ med.op = "track_fx_add_by_name_add"
    /\ med.native # <<>>
    /\ med.in.ret = 0
    /\ med.value = <<"Ok", [hi |-> 0, lo |-> 0]>>

(***************************************************************************)
(* C15: get_track, get_selected_track_2, get_current_project_in_load_save, *)
(* get_track_envelope_by_name and track_fx_get_floating_window return None *)
(* when the native function returns null and Some of the same pointer when *)
(* it returns non-null; a null return causes no panic.                     *)
(***************************************************************************)
C15_NullIsNone ==
    (med.op \in NullablePointerOps /\ CallDone /\ Forwarded) =>
        /\ med.outcome = "ok"
        /\ med.in.ret = 0 => med.value = <<"None">>
        /\ med.in.ret # 0 => med.value = <<"Some", med.in.ret>>

\* get_track on a valid explicit project whose native call answered null.
C15_Witness ==
    /\ med.op = "get_track"
    /\ med.in.project.kind = "Proj"
    /\ Forwarded
    /\ med.in.ret = 0
    /\ med.outcome = "ok"
    /\ med.value = <<"None">>

(***************************************************************************)
(* C16: an output-parameter wrapper reads an output slot only after the    *)
(* native call has written it: when the native call reports failure or     *)
(* leaves a slot unwritten, the wrapper does not read that slot (so its    *)
(* content cannot reach the caller).                                       *)
(***************************************************************************)
C16_SlotsReadAfterWritten ==
    (med.op \in OutputOps /\ CallDone) => med.reads \subseteq med.in.wrote

(***************************************************************************)
(* C17: a closure-scoped accessor invokes the caller's closure exactly     *)
(* once, before it returns, when the native function returns a non-null    *)
(* pointer, and returns Some of the closure's result; when the native      *)
(* function returns null it does not invoke the closure and returns None;  *)
(* the pointer is never part of the returned value.                        *)
(***************************************************************************)
C17_ClosureOnceIfNonNull ==
    (med.op \in ClosureOps /\ CallDone) =>
        /\ (Forwarded /\ med.in.ret # 0) =>
               /\ med.outcome = "ok"
               /\ Len(med.closure) = 1
               /\ med.closure[1].arg = med.in.ret
               /\ med.closure[1].after = Len(med.native)
               /\ med.value = <<"Some", med.in.closure_ret>>
        /\ (Forwarded /\ med.in.ret = 0) =>
               /\ med.outcome = "ok"
               /\ med.closure = <<>>
               /\ med.value = <<"None">>
        /\ ~Forwarded => med.closure = <<>>
        /\ med.value \in {Unit, <<"None">>} \cup {<<"Some", r>> : r \in ClosureResults}

\* section_from_unique_id found the section and ran the closure on it.
C17_Witness ==
    /\ med.op = "section_from_unique_id"
    /\ med.in.ret # 0
    /\ Len(med.closure) = 1
    /\ med.value = <<"Some", med.in.closure_ret>>

(***************************************************************************)
(* C18: a checked project operation called with an explicit project calls  *)
(* ValidatePtr2 on that project before it forwards to the native function; *)
(* when the project is reported invalid the operation panics and the       *)
(* native function is never called; with the current project no            *)
(* validation call is made.                                                *)
(***************************************************************************)
C18_ValidatedBeforeForwarding ==
    (med.op \in ProjectOps /\ CallDone) =>
        /\ med.in.project.kind = "Proj" =>
               /\ Forwarded =>
                      /\ med.native[1] = [name |-> "ValidatePtr2",
                                          args |-> <<0, med.in.project.p, "ReaProject*">>]
                      /\ \A i \in 2..Len(med.native) : med.native[i].name # "ValidatePtr2"
               /\ (med.native # <<>> /\ ~med.in.valid) =>
                      /\ med.outcome = "panic"
                      /\ med.panic_msg = <<"ReaProject doesn't exist anymore">>
                      /\ ~Forwarded
        /\ med.in.project.kind = "CurrentProject" =>
               \A i \in DOMAIN med.native : med.native[i].name # "ValidatePtr2"

\* count_tracks on an explicit project that is gone: validated, then panicked.
C18_Witness ==
    /\ med.op = "count_tracks"
    /\ med.in.project.kind = "Proj"
    /\ ~med.in.valid
    /\ Len(med.native) = 1
    /\ med.native[1].name = "ValidatePtr2"
    /\ med.outcome = "panic"

(***************************************************************************)
(* C21: an instance obtained from Default::default() instead of load has   *)
(* every table entry absent; every accessor call on it panics with the     *)
(* not-loaded message naming the function, and asking it for its plug-in   *)
(* context panics as well.                                                 *)
(***************************************************************************)
FromDefault(self) == self.load = 0

C21_DefaultInstancePanics ==
    /\ \A i \in DOMAIN instances :
           FromDefault(instances[i]) =>
               /\ \A n \in FieldNames : ~instances[i].pointers[n].some
               /\ ~instances[i].plugin_context
    /\ (last_call.outcome # "none" /\ FromDefault(last_call.self)) =>
           /\ last_call.outcome = "panicked"
           /\ last_call.panic_msg =
                  <<"Attempt to use a function that has not been loaded: ", last_call.name>>
           /\ last_call.native = <<>>
    /\ (last_ctx.outcome # "none" /\ FromDefault(last_ctx.self)) =>
           /\ last_ctx.outcome = "panicked"
           /\ last_ctx.panic_msg = "plug-in context not available on demo instances"

\* Both an accessor and plugin_context() were called on a default instance,
\* while a loaded instance handed out its context.
C21_Witness ==
    /\ last_call.outcome = "panicked"
    /\ FromDefault(last_call.self)
    /\ last_ctx.outcome = "panicked"
    /\ FromDefault(last_ctx.self)
    /\ \E i \in DOMAIN instances : ~FromDefault(instances[i])

(***************************************************************************)
(* The integration test runner: what a run has done so far.                *)
(***************************************************************************)
IsStepLog(entry) == entry[1] = "step"

\* The steps the runner has taken from the list, as logged by log_step.
ProcessedSteps == SelectSeq(itest.console, IsStepLog)

ExecutedSteps == {itest.operations[i].step : i \in DOMAIN itest.operations}

Failed(operation) == operation.outcome.kind # "Ok"

\* The run stopped in the expect on the scheduling result.
SchedulingRefused ==
    itest.pc = "panicked" /\ itest.panic_msg = <<"couldn't schedule next test step">>

RunOver == itest.pc = "running" /\ itest.tasks = <<>>

Mismatch(k) ==
    LET r == itest.test_steps[k].version_restriction
    IN  \/ r.kind = "Min" /\ itest.version < r.v
        \/ r.kind = "Max" /\ itest.version > r.v

SkipReason(k) ==
    IF itest.test_steps[k].version_restriction.kind = "Min"
    THEN "REAPER version too low"
    ELSE "REAPER version too high"

\* The position in the console of the log_step line of step k.
StepLogPos(k) == CHOOSE p \in DOMAIN itest.console : itest.console[p] = <<"step", k, k>>

LastLog ==
    IF itest.console = <<>> THEN <<"">> ELSE itest.console[Len(itest.console)]

\* The task for the steps after step k is the one task handed to the main
\* thread.
NextScheduled(k) ==
    \/ /\ itest.pc = "running"
       /\ itest.tasks = <<SubSeq(itest.test_steps, k + 1, Len(itest.test_steps))>>
       /\ itest.finish_calls = <<>>
    \/ SchedulingRefused

C25_MismatchSkipped ==
    /\ \A k \in DOMAIN ProcessedSteps :
           Mismatch(k) =>
               /\ k \notin ExecutedSteps
               /\ \A i \in DOMAIN itest.completed : itest.completed[i] # k
               /\ StepLogPos(k) < Len(itest.console)
               /\ itest.console[StepLogPos(k) + 1] = <<"SKIPPED", SkipReason(k)>>
               /\ (k = Len(ProcessedSteps) /\ itest.finish_calls # <<>>) =>
                      itest.finish_calls[1].kind = "Ok"
    /\ \A k \in DOMAIN ProcessedSteps :
           ~Mismatch(k) => k \in ExecutedSteps
    \* right after a skipped step
    /\ LastLog[1] = "SKIPPED" => NextScheduled(Len(ProcessedSteps))
    \* right after a successful step
    /\ (/\ LastLog[1] = "step"
        /\ itest.operations # <<>>
        /\ itest.operations[Len(itest.operations)].step = Len(ProcessedSteps)
        /\ ~Failed(itest.operations[Len(itest.operations)])) =>
           NextScheduled(Len(ProcessedSteps))

\* The second step was skipped for a REAPER that is too old, the third ran
\* and the run finished with Ok.
C25_Witness ==
    /\ Len(itest.test_steps) = 3
    /\ Mismatch(2)
    /\ ExecutedSteps = {1, 3}
    /\ itest.finish_calls = <<FinishOk>>
    /\ itest.console[StepLogPos(2) + 1] = <<"SKIPPED", "REAPER version too low">>

(***************************************************************************)
(* C26: a step operation that panics does not propagate the panic out of   *)
(* execute_next_step: the panic is turned into a failure result that names *)
(* the step, the step's finished subject is still completed, on_finish     *)
(* receives Err, and the remaining steps are not run.                      *)
(***************************************************************************)
PanickedMsg(step_name) == <<"Test [", step_name, "] panicked">>

C26_PanicBecomesFailure ==
    \A i \in DOMAIN itest.operations :
        itest.operations[i].outcome.kind = "panic" =>
            /\ itest.pc = "running"
            /\ itest.panic_msg = <<>>
            /\ i = Len(itest.operations)
            /\ Len(itest.completed) = i
            /\ itest.completed[i] = itest.operations[i].step
            /\ itest.finish_calls = <<FinishErr(PanickedMsg(itest.operations[i].step))>>
            /\ LastLog = <<"FAILED", PanickedMsg(itest.operations[i].step)>>
            /\ itest.tasks = <<>>
            /\ Len(ProcessedSteps) = itest.operations[i].step

\* The second of three steps panicked.
C26_Witness ==
    /\ Len(itest.test_steps) = 3
    /\ Len(itest.operations) = 2
    /\ itest.operations[2] = [step |-> 2, outcome |-> OpPanic]
    /\ itest.finish_calls = <<FinishErr(<<"Test [", 2, "] panicked">>)>>

(***************************************************************************)
(* C27: provided the main thread eventually runs every task handed to      *)
(* execute_later_in_main_thread_asap and every step operation returns,     *)
(* execute_integration_test eventually calls on_finish for every finite    *)
(* list of steps, after executing or skipping at most one step per         *)
(* scheduled main-thread task (the first step is taken by                  *)
(* execute_integration_test itself). A task the main thread refuses was    *)
(* not handed to it: that run stops in the expect.                         *)
(***************************************************************************)
C27_EventuallyFinishes ==
    /\ [](Len(ProcessedSteps) <= itest.tasks_run + 1)
    /\ [](Len(itest.tasks) <= 1)
    /\ (itest.pc = "running") ~> (Len(itest.finish_calls) = 1 \/ SchedulingRefused)

\* All three steps were taken, one per task, and the fourth call of
\* execute_next_step reported success.
C27_Witness ==
    /\ Len(itest.test_steps) = 3
    /\ Len(ProcessedSteps) = 3
    /\ itest.tasks_run = 3
    /\ itest.finish_calls = <<FinishOk>>

(***************************************************************************)
(* C23: a string-buffer accessor whose contract forbids size 0             *)
(* (track_fx_get_fx_name, track_fx_get_param_name,                         *)
(* track_fx_get_formatted_param_value,                                     *)
(* track_fx_format_param_value_normalized, get_track_state_chunk) panics   *)
(* when it is called with buffer size 0, before the native function is     *)
(* called. Both get_track_state_chunk of the sources are accessors of that *)
(* name.                                                                   *)
(***************************************************************************)
C23_ZeroSizePanicsFirst ==
    (/\ med.op \in AssertingBufferOps \cup {"medium_level::get_track_state_chunk"}
     /\ CallDone
     /\ med.in.buffer_size = 0) =>
        /\ med.outcome = "panic"
        /\ med.panic_msg = <<"assertion failed: buffer_size > 0">>
        /\ med.native = <<>>
        /\ med.alloc = <<>>

\* The same statement for the accessors of medium/src/reaper_functions.rs
\* alone.
C23_AssertingAccessors ==
    (/\ med.op \in AssertingBufferOps
     /\ CallDone
     /\ med.in.buffer_size = 0) =>
        /\ med.outcome = "panic"
        /\ med.panic_msg = <<"assertion failed: buffer_size > 0">>
        /\ med.native = <<>>
        /\ med.alloc = <<>>

(***************************************************************************)
(* C24: for every buffer size n >= 1 and every native fill that writes     *)
(* only within the first n bytes of the buffer, with_string_buffer passes  *)
(* n as the maximum size to the native function and returns a string that  *)
(* consists exactly of the buffer bytes before the first nul byte; the     *)
(* returned string is never longer than n bytes, also when the native      *)
(* function writes no nul terminator at all.                               *)
(***************************************************************************)
\* The n bytes of the buffer after the native function has written in.raw
\* over the start of the initial fill bytes.
BufferAfterFill ==
    [i \in 1..med.in.buffer_size |->
        IF i <= Len(med.in.raw) THEN med.in.raw[i] ELSE FillByte]

C24_StringBeforeFirstNul ==
    (/\ med.op = "with_string_buffer"
     /\ CallDone
     /\ med.in.buffer_size >= 1) =>
        /\ med.outcome = "ok"
        /\ Len(med.native) = 1
        /\ med.native[1].args = <<BufferPtr, med.in.buffer_size>>
        /\ Len(med.buf) <= med.in.buffer_size
        /\ \A i \in DOMAIN med.buf : med.buf[i] = BufferAfterFill[i] /\ med.buf[i] # NUL
        /\ Len(med.buf) < med.in.buffer_size => BufferAfterFill[Len(med.buf) + 1] = NUL

\* The native function filled both bytes of a two-byte buffer and wrote no
\* NUL: the string is those two bytes.
C24_Witness ==
    /\ med.op = "with_string_buffer"
    /\ CallDone
    /\ med.in.buffer_size = 2
    /\ med.in.raw = <<65, 65>>
    /\ med.buf = <<65, 65>>

(***************************************************************************)
(* C29: kbd_on_main_action_ex encodes the value change for the native call *)
(* as follows: for AbsoluteHighRes(v) with a 14-bit v it passes            *)
(* val = (v >> 7) & 0x7f and valhw = v & 0x7f with relmode 0, so that      *)
(* val * 128 + valhw = v and both lie in 0..127; for AbsoluteLowRes,       *)
(* Relative1, Relative2 and Relative3 it passes the value as val,          *)
(* valhw = -1 and relmode 0, 1, 2 and 3 respectively.                      *)
(***************************************************************************)
RelModeOf(kind) ==
    CASE kind = "AbsoluteLowRes" -> 0
      [] kind = "Relative1" -> 1
      [] kind = "Relative2" -> 2
      [] kind = "Relative3" -> 3

C29_ValueChangeEncoding ==
    (med.op = "kbd_on_main_action_ex" /\ CallDone /\ med.native # <<>>) =>
        LET val == med.native[1].args[2]
            valhw == med.native[1].args[3]
            relmode == med.native[1].args[4]
            change == med.in.value_change
        IN  /\ Len(med.native) = 1
            /\ med.native[1].name = "KBD_OnMainActionEx"
            /\ change.kind = "AbsoluteHighRes" =>
                   /\ val \in 0..127
                   /\ valhw \in 0..127
                   /\ val * 128 + valhw = change.v
                   /\ relmode = 0
            /\ change.kind # "AbsoluteHighRes" =>
                   /\ val = change.v
                   /\ valhw = -1
                   /\ relmode = RelModeOf(change.kind)

\* The largest 14-bit value went out as 127 and 127.
C29_Witness ==
    /\ med.op = "kbd_on_main_action_ex"
    /\ CallDone
    /\ med.in.value_change = ActionValueChange("AbsoluteHighRes", 16383)
    /\ med.native # <<>>
    /\ med.native[1].args[2] = 127
    /\ med.native[1].args[3] = 127

(***************************************************************************)
(* C30: decoding the native track and item numbers in get_focused_fx and   *)
(* get_last_touched_fx never underflows an unsigned 32-bit subtraction:    *)
(* for every combination of native result and output values, the           *)
(* zero-based track_index and item_index of a take-FX result are computed  *)
(* from a one-based number >= 1, and a track number 0 is mapped to the     *)
(* master track and a track number n > 0 to normal track n - 1.            *)
(***************************************************************************)
\* The track number the native function wrote, as u32.
WrittenTrackNumber == as_u32(med.in.slots["tracknumber"])

\* The one-based track number a take-FX result is decoded from.
OneBasedTrackNumber ==
    IF med.op = "get_focused_fx" THEN WrittenTrackNumber ELSE low16(WrittenTrackNumber)

C30_NoUnderflow ==
    (med.op \in {"get_focused_fx", "get_last_touched_fx"} /\ CallDone) =>
        /\ ~(med.outcome = "panic"
             /\ med.panic_msg = <<"attempt to subtract with overflow">>)
        /\ (med.outcome = "ok" /\ med.value[1] = "Some") =>
               /\ med.value[2].kind = "TakeFx" =>
                      /\ ~Underflows(OneBasedTrackNumber, 1)
                      /\ med.value[2].track_index = sub_u32(OneBasedTrackNumber, 1)
                      /\ med.op = "get_last_touched_fx" =>
                             /\ ~Underflows(shr16(WrittenTrackNumber), 1)
                             /\ med.value[2].item_index =
                                    sub_u32(shr16(WrittenTrackNumber), 1)
               /\ med.value[2].kind = "TrackFx" =>
                      /\ WrittenTrackNumber = as_u32(0) =>
                             med.value[2].track_ref = <<"MasterTrack">>
                      /\ WrittenTrackNumber # as_u32(0) =>
                             /\ ~Underflows(WrittenTrackNumber, 1)
                             /\ med.value[2].track_ref =
                                    <<"NormalTrack", sub_u32(WrittenTrackNumber, 1)>>

(***************************************************************************)
(* C28: when several threads call Swell::make_available_globally           *)
(* concurrently and other threads call Swell::get at any point of the      *)
(* interleaving, exactly one of the passed instances is stored, and every  *)
(* Swell::get either panics because no instance is stored yet or returns   *)
(* that one, completely stored instance; no get observes a different       *)
(* instance later.                                                         *)
(***************************************************************************)
PassedInstances ==
    {race.makers[t].functions : t \in {m \in Makers : race.makers[m].pc # "idle"}}

\* The Once lets one closure run, and it stores an instance that was passed.
C28_OneStore ==
    /\ Len(race.closure_runs) <= 1
    /\ race.slot.state # "none" =>
           /\ race.closure_runs = <<race.slot.value>>
           /\ race.slot.value \in PassedInstances
    /\ race.once = "done" => race.slot.state = "some"
    /\ \A t \in Makers : race.makers[t].pc = "returned" => race.slot.state = "some"

C28_GetSeesNoneOrTheInstance ==
    /\ C28_OneStore
    /\ \A i \in DOMAIN race.gets :
           \/ /\ race.gets[i].outcome = "panic"
              /\ race.gets[i].slot # "some"
           \/ /\ race.gets[i].outcome = "ok"
              /\ race.gets[i].complete
              /\ race.gets[i].value = race.slot.value
    /\ \A i, j \in DOMAIN race.gets :
           (i < j /\ race.gets[i].outcome = "ok") =>
               /\ race.gets[j].outcome = "ok"
               /\ race.gets[j].value = race.gets[i].value

=============================================================================
